---- MODULE Spec2Model ----
(***************************************************************************)
(* Verification model of GeminiTranscriptionLab: the timestamp normalizer, *)
(* the response repairer, the lyric (LRC) exporter and the active-segment  *)
(* resolver.  Strings are sequences of one-character strings, so that the  *)
(* scanning, splitting, padding and parsing the code does can be modelled  *)
(* character by character.  JavaScript numbers that hold times are         *)
(* modelled exactly (whole seconds plus decimal fraction digits, or whole  *)
(* milliseconds); binary floating-point noise below half a millisecond is  *)
(* not modelled.  JSON.parse and the regular expression of the repairer    *)
(* are modelled on the characters of the blob: a parser for the JSON       *)
(* grammar and a matcher that follows the expression part by part.         *)
(***************************************************************************)
EXTENDS Integers, Sequences, FiniteSets, TLC

VARIABLES
    pc,          \* position of the operation under analysis
    ts,          \* normalizeTimestamp: the input token
    normOut,     \* normalizeTimestamp: the returned string (or a throw marker)
    upstream,    \* what the generation service produced: its records and
                 \* the offset at which its output was cut off
    blob,        \* transcribeAudio: response.text, the raw blob
    repairOut,   \* the outcome of tryRepairJson / of transcribeAudio
    segments,    \* a lane's results[side].segments
    currentTime, \* App state currentTime (the playhead), in milliseconds
    activeIdx,   \* activeIndices[side], recomputed on every render
    duration,    \* audioRef.current?.duration as handleDownload reads it
    exportType,  \* handleDownload: 'original' | 'translated'
    content,     \* the string handleDownload passes to downloadFile
    results,     \* App state results: per side modelName, segments, loading, error
    runs,        \* per side, where its runTranscription stands, its abort
                 \* controller and the outcome its transcribeAudio settled with
    translations \* per side, where its runTranslate stands and the segments
                 \* it sent to translateSegments

vars == <<pc, ts, normOut, upstream, blob, repairOut, segments, currentTime, activeIdx,
          duration, exportType, content, results, runs, translations>>

\* Values of the variables an operation under analysis does not use.
Unused == <<>>

\* ------------------------------------------------------------------------
\* Characters and strings
\* ------------------------------------------------------------------------
Digits == {"0", "1", "2", "3", "4", "5", "6", "7", "8", "9"}

IsDigit(c) == c \in Digits

DigitVal(c) ==
    CASE c = "0" -> 0 [] c = "1" -> 1 [] c = "2" -> 2 [] c = "3" -> 3
      [] c = "4" -> 4 [] c = "5" -> 5 [] c = "6" -> 6 [] c = "7" -> 7
      [] c = "8" -> 8 [] c = "9" -> 9

DigitChar(d) ==
    CASE d = 0 -> "0" [] d = 1 -> "1" [] d = 2 -> "2" [] d = 3 -> "3"
      [] d = 4 -> "4" [] d = 5 -> "5" [] d = 6 -> "6" [] d = 7 -> "7"
      [] d = 8 -> "8" [] d = 9 -> "9"

\* JavaScript white space that occurs in the modelled inputs.
WhiteSpace == {" ", "\n", "\t", "\r"}

\* All sequences over S of length lo..hi.
SeqsOf(S, lo, hi) == UNION {[1..n -> S] : n \in lo..hi}

\* Index of the first element of s at or after i that satisfies no digit
\* test etc. are written per use; these are the generic scanners.
RECURSIVE IndexOfFrom(_, _, _)
IndexOfFrom(s, c, i) ==
    IF i > Len(s) THEN 0
    ELSE IF s[i] = c THEN i ELSE IndexOfFrom(s, c, i + 1)

\* String.prototype.includes for a one-character needle.
Includes(s, c) == IndexOfFrom(s, c, 1) # 0

\* String.prototype.lastIndexOf for a one-character needle (1-based, 0: none).
RECURSIVE LastIndexOfFrom(_, _, _)
LastIndexOfFrom(s, c, i) ==
    IF i < 1 THEN 0
    ELSE IF s[i] = c THEN i ELSE LastIndexOfFrom(s, c, i - 1)

LastIndexOf(s, c) == LastIndexOfFrom(s, c, Len(s))

\* String.prototype.trim.
RECURSIVE TrimLeft(_)
TrimLeft(s) ==
    IF s # <<>> /\ s[1] \in WhiteSpace THEN TrimLeft(Tail(s)) ELSE s

RECURSIVE TrimRight(_)
TrimRight(s) ==
    IF s # <<>> /\ s[Len(s)] \in WhiteSpace
    THEN TrimRight(SubSeq(s, 1, Len(s) - 1)) ELSE s

Trim(s) == TrimRight(TrimLeft(s))

\* String.prototype.replace(a, b) with a string pattern: the first
\* occurrence only.
ReplaceFirstChar(s, a, b) ==
    LET i == IndexOfFrom(s, a, 1)
    IN  IF i = 0 THEN s ELSE [s EXCEPT ![i] = b]

\* String.prototype.split for a one-character separator.
RECURSIVE SplitFrom(_, _, _, _)
SplitFrom(s, sep, i, cur) ==
    IF i > Len(s) THEN <<cur>>
    ELSE IF s[i] = sep THEN <<cur>> \o SplitFrom(s, sep, i + 1, <<>>)
    ELSE SplitFrom(s, sep, i + 1, Append(cur, s[i]))

Split(s, sep) == SplitFrom(s, sep, 1, <<>>)

\* String.prototype.substring(0, n).
Substring0(s, n) == SubSeq(s, 1, IF Len(s) < n THEN Len(s) ELSE n)

\* String.prototype.padStart(n, c) and padEnd(n, c).
PadStart(s, n, c) == [i \in 1..(IF Len(s) < n THEN n - Len(s) ELSE 0) |-> c] \o s

PadEnd(s, n, c) == s \o [i \in 1..(IF Len(s) < n THEN n - Len(s) ELSE 0) |-> c]

\* The longest prefix of decimal digits.
RECURSIVE DigitPrefix(_)
DigitPrefix(s) ==
    IF s # <<>> /\ IsDigit(s[1]) THEN <<s[1]>> \o DigitPrefix(Tail(s)) ELSE <<>>

\* The value of a sequence of decimal digits (0 for the empty sequence).
RECURSIVE DigitsValue(_)
DigitsValue(s) ==
    IF s = <<>> THEN 0
    ELSE 10 * DigitsValue(SubSeq(s, 1, Len(s) - 1)) + DigitVal(s[Len(s)])

\* String(n) / n.toString() for an integer n >= 0.
RECURSIVE NumToStr(_)
NumToStr(n) ==
    IF n < 10 THEN <<DigitChar(n)>>
    ELSE Append(NumToStr(n \div 10), DigitChar(n % 10))

\* parseInt(s, 10) || 0 on a string of digits, dots and nothing else:
\* the leading digits' value; NaN (no leading digit) and 0 both give 0.
ParseIntOr0(s) == DigitsValue(DigitPrefix(s))

\* ------------------------------------------------------------------------
\* TimestampNormalizer: normalizeTimestamp (geminiService)
\* ------------------------------------------------------------------------
ZeroStamp == <<"0", "0", ":", "0", "0", ":", "0", "0", ".", "0", "0", "0">>

\* What String(NaN) puts into the template string for each field.
NaNStamp ==
    <<"N", "a", "N", ":", "N", "a", "N", ":", "N", "a", "N", ".", "N", "a", "N">>

\* The marker for a TypeError thrown by a method call on undefined.
Thrown == <<"TypeError">>

\* ts.replace(/[^\d:.]/g, ''): keep digits, colons and dots.
IsTimeChar(c) == IsDigit(c) \/ c = ":" \/ c = "."

StripNonTime(s) == SelectSeq(s, IsTimeChar)

\* /^[\d.]+$/.test(clean)
IsDigitsAndDots(s) ==
    /\ s # <<>>
    /\ \A i \in 1..Len(s) : IsDigit(s[i]) \/ s[i] = "."

\* parseFloat on a string of digits and dots: digits, then optionally a dot
\* and digits; NaN when no digit was read.  The value is whole + 0.frac.
ParseFloat(s) ==
    LET ip   == DigitPrefix(s)
        rest == SubSeq(s, Len(ip) + 1, Len(s))
        fp   == IF rest # <<>> /\ rest[1] = "." THEN DigitPrefix(Tail(rest))
                ELSE <<>>
    IN  [nan |-> ip = <<>> /\ fp = <<>>, whole |-> DigitsValue(ip), frac |-> fp]

IsNaN_never(x) == FALSE

\* isNaN(totalSeconds)
IsNaN(x) == x.nan

\* Math.round(0.frac * k) for k = 10^n: the first n fraction digits, plus
\* one when the next digit is 5 or more.
RoundFrac(frac, n) ==
    DigitsValue(Substring0(PadEnd(frac, n, "0"), n))
      + (IF Len(frac) > n /\ DigitVal(frac[n + 1]) >= 5 THEN 1 ELSE 0)

\* The template string of lines 52 and 109 for whole seconds and a
\* millisecond field: floor(t/3600), floor((t%3600)/60), floor(t%60), ms.
FormatStamp(whole, ms) ==
    PadStart(NumToStr(whole \div 3600), 2, "0") \o <<":">>
      \o PadStart(NumToStr((whole % 3600) \div 60), 2, "0") \o <<":">>
      \o PadStart(NumToStr(whole % 60), 2, "0") \o <<".">>
      \o PadStart(NumToStr(ms), 3, "0")

\* secParts[1].substring(0, 3).padEnd(3, '0') parsed with parseInt(..) || 0;
\* secParts[1] is undefined when the split gave fewer than two pieces.
FracField(secParts) == ParseIntOr0(PadEnd(Substring0(secParts[2], 3), 3, "0"))

IsMillisField_lengthOnly(p2Raw, p2) == Len(p2Raw) = 3

\* p2Raw.length === 3 || p2 > 59 (line 82)
IsMillisField(p2Raw, p2) == Len(p2Raw) = 3 \/ p2 > 59

\* Lines 56-100: the decomposed fields [h, m, s, ms] of a cleaned token, or
\* a throw.
Decompose(clean) ==
    LET parts == Split(clean, ":")
        zero  == [threw |-> FALSE, h |-> 0, m |-> 0, s |-> 0, ms |-> 0]
    IN  IF Len(parts) = 4 THEN
            [zero EXCEPT !.h = ParseIntOr0(parts[1]),
                         !.m = ParseIntOr0(parts[2]),
                         !.s = ParseIntOr0(parts[3]),
                         !.ms = ParseIntOr0(PadEnd(Substring0(parts[4], 3), 3, "0"))]
        ELSE IF Len(parts) = 3 THEN
            LET p0 == ParseIntOr0(parts[1])
                p1 == ParseIntOr0(parts[2])
            IN  IF Includes(parts[3], ".") THEN
                    LET secParts == Split(parts[3], ".")
                    IN  IF Len(secParts) < 2 THEN [zero EXCEPT !.threw = TRUE]
                        ELSE [zero EXCEPT !.h = p0, !.m = p1,
                                          !.s = ParseIntOr0(secParts[1]),
                                          !.ms = FracField(secParts)]
                ELSE
                    LET p2Raw == parts[3]
                        p2    == ParseIntOr0(p2Raw)
                    IN  IF IsMillisField(p2Raw, p2)
                        THEN [zero EXCEPT !.m = p0, !.s = p1, !.ms = p2]
                        ELSE [zero EXCEPT !.h = p0, !.m = p1, !.s = p2]
        ELSE IF Len(parts) = 2 THEN
            IF Includes(parts[2], ".") THEN
                LET secParts == Split(parts[2], ".")
                IN  IF Len(secParts) < 2 THEN [zero EXCEPT !.threw = TRUE]
                    ELSE [zero EXCEPT !.m = ParseIntOr0(parts[1]),
                                      !.s = ParseIntOr0(secParts[1]),
                                      !.ms = FracField(secParts)]
            ELSE [zero EXCEPT !.m = ParseIntOr0(parts[1]),
                              !.s = ParseIntOr0(parts[2])]
        ELSE zero

\* Lines 102-109: totalSeconds = h*3600 + m*60 + s + ms/1000, re-derived.
Recompose(f) ==
    FormatStamp(f.h * 3600 + f.m * 60 + f.s + f.ms \div 1000, f.ms % 1000)

normalizeTimestamp(t) ==
    IF t = <<>> THEN ZeroStamp
    ELSE
        LET clean == StripNonTime(ReplaceFirstChar(Trim(t), ",", "."))
            total == ParseFloat(clean)
        IN  IF ~Includes(clean, ":") /\ IsDigitsAndDots(clean) /\ ~IsNaN(total)
            THEN IF total.nan THEN NaNStamp
                 ELSE FormatStamp(total.whole, RoundFrac(total.frac, 3))
            ELSE LET f == Decompose(clean)
                 IN  IF f.threw THEN Thrown ELSE Recompose(f)

\* clean.split(/[:.]/) of the older service file (part_003 line 45).
SplitColonDot(s) ==
    Split([i \in 1..Len(s) |-> IF s[i] = "." THEN ":" ELSE s[i]], ":")

\* x.padStart(2, '0').substring(0, 2) (part_003 lines 69-71)
TwoChars(x) == Substring0(PadStart(x, 2, "0"), 2)

\* The older normalizeTimestamp (src/unnamed/part_003 lines 38-75): the
\* components are assigned to the fields as strings and each field is
\* padded and cut; nothing is recomputed.
normalizeTimestamp_part003(t) ==
    IF t = <<>> THEN ZeroStamp
    ELSE
        LET c == SplitColonDot(StripNonTime(t))
            z == <<"0", "0">>
            f == IF Len(c) >= 4 THEN <<c[1], c[2], c[3], c[4]>>
                 ELSE IF Len(c) = 3
                 THEN (IF Len(c[3]) = 3 THEN <<z, c[1], c[2], c[3]>>
                       ELSE <<c[1], c[2], c[3], <<"0", "0", "0">> >>)
                 ELSE IF Len(c) = 2 THEN <<z, c[1], c[2], <<"0", "0", "0">> >>
                 ELSE <<z, z, c[1], <<"0", "0", "0">> >>
        IN  TwoChars(f[1]) \o <<":">> \o TwoChars(f[2]) \o <<":">> \o TwoChars(f[3])
              \o <<".">> \o Substring0(PadEnd(f[4], 3, "0"), 3)

\* ------------------------------------------------------------------------
\* Inputs of normalizeTimestamp
\* ------------------------------------------------------------------------
MaxJunkLen == 3
MaxWholeLen == 2
MaxFracLen == 4

\* String(undefined) and String(null), as transcribeAudio passes them for a
\* record without the field.
StrUndefined == <<"u", "n", "d", "e", "f", "i", "n", "e", "d">>

StrNull == <<"n", "u", "l", "l">>

\* Every string of up to MaxJunkLen characters over digits, separators,
\* a sign, a unit letter and a blank.
JunkChars == {"0", "7", ":", ".", ",", "-", "s", " "}

JunkTokens == SeqsOf(JunkChars, 0, MaxJunkLen)

\* Raw seconds: whole digits, optionally a dot and fraction digits.
RawSecondTokens ==
    {w \o f : w \in SeqsOf({"0", "6", "9"}, 0, MaxWholeLen),
              f \in {<<>>} \cup {<<".">> \o d : d \in SeqsOf({"0", "5", "9"}, 0, MaxFracLen)}}

\* Colon-delimited tokens of two to five components.
HeadFields == {<<>>, <<"0">>, <<"0", "1">>, <<"5", "9">>, <<"6", "5">>, <<"1", "0", "0">>}

LastFields ==
    {w \o f : w \in {<<>>, <<"5">>, <<"0", "3">>, <<"5", "9">>, <<"6", "0">>,
                     <<"0", "0", "5">>, <<"5", "0", "0">>, <<"1", "5", "0", "0">>},
              f \in {<<>>, <<".">>, <<".", "5">>, <<".", "2", "5", "0">>,
                     <<".", "9", "9", "9", "6">>, <<",", "5">>}}

ColonTokens ==
    {a \o <<":">> \o z : a \in HeadFields, z \in LastFields}
      \cup {a \o <<":">> \o b \o <<":">> \o z :
                a \in HeadFields, b \in HeadFields, z \in LastFields}
      \cup {<<"0", "1", ":">> \o a \o <<":">> \o b \o <<":">> \o z :
                a \in {<<"0", "2">>, <<"6", "5">>}, b \in HeadFields, z \in LastFields}
      \cup {<<"1", ":", "2", ":", "3", ":", "4", ":">> \o z : z \in LastFields}

\* Tokens with a leading minus sign: negative raw seconds and negative
\* colon-delimited times.
NegativeTokens == {<<"-">> \o t : t \in RawSecondTokens \cup ColonTokens}

\* The tokens the design document names.
ExampleTokens ==
    { <<"1", ":", "0", "2", ":", "0", "3", ".", "5", "0", "0">>,
      <<"0", "0", ":", "6", "5", ".", "2", "5", "0">>,
      <<"0", "0", ":", "2", "3">>,
      <<"-", "5">>,
      <<"-", "0", "0", ":", "0", "5">> }

NormTokens ==
    JunkTokens \cup RawSecondTokens \cup ColonTokens \cup NegativeTokens
      \cup ExampleTokens \cup {StrUndefined, StrNull}

\* ------------------------------------------------------------------------
\* Specification of the normalizer: transcribeAudio hands one field of one
\* record to normalizeTimestamp (lines 296-297).
\* ------------------------------------------------------------------------
InitNorm ==
    /\ pc = "norm_call"
    /\ results = Unused /\ runs = Unused /\ translations = Unused
    /\ ts \in NormTokens
    /\ normOut = <<>>
    /\ upstream = Unused /\ blob = Unused
    /\ repairOut = Unused /\ segments = Unused
    /\ currentTime = 0 /\ activeIdx = -1
    /\ duration = Unused /\ exportType = Unused /\ content = Unused

Normalize ==
    /\ pc = "norm_call"
    /\ normOut' = normalizeTimestamp(ts)
    /\ pc' = "norm_done"
    /\ UNCHANGED <<results, runs, translations, ts, upstream, blob, repairOut, segments, currentTime, activeIdx,
                   duration, exportType, content>>

\* The same call with the normalizer of the older service file.
Normalize_part003 ==
    /\ pc = "norm_call"
    /\ normOut' = normalizeTimestamp_part003(ts)
    /\ pc' = "norm_done_part003"
    /\ UNCHANGED <<results, runs, translations, ts, upstream, blob, repairOut, segments, currentTime, activeIdx,
                   duration, exportType, content>>

NextNorm == Normalize \/ Normalize_part003

SpecNorm == InitNorm /\ [][NextNorm]_vars

\* ------------------------------------------------------------------------
\* Claims about normalizeTimestamp (checked under SpecNorm)
\* ------------------------------------------------------------------------
HasDigit(s) == \E i \in 1..Len(s) : IsDigit(s[i])

OutputChars == Digits \cup {":", ".", "N", "a"}

\* C1: normalizeTimestamp is total: for every token it returns a string and
\* does not throw, and a token from which no number can be parsed (one
\* holding no digit: empty, "undefined", "null", only separators or
\* letters) yields exactly "00:00:00.000".
C1_TotalZeroOnUnparseable ==
    pc = "norm_done" =>
        /\ normOut # Thrown
        /\ normOut # <<>>
        /\ \A i \in 1..Len(normOut) : normOut[i] \in OutputChars
        /\ (~HasDigit(ts) => normOut = ZeroStamp)

C1_Witness ==
    /\ pc = "norm_done"
    /\ ts = StrUndefined
    /\ normOut = ZeroStamp

\* The shape HH:MM:SS.mmm: twelve characters, digits except for the colons
\* at 3 and 6 and the dot at 9.
IsCanonicalShape(s) ==
    /\ Len(s) = 12
    /\ s[3] = ":" /\ s[6] = ":" /\ s[9] = "."
    /\ \A i \in {1, 2, 4, 5, 7, 8, 10, 11, 12} : IsDigit(s[i])

\* C2: for every input token the returned string has exactly the shape
\* HH:MM:SS.mmm (two digits each for hours, minutes and seconds, three for
\* milliseconds), raw seconds with more than three fraction digits included.
C2_CanonicalShape == pc = "norm_done" => IsCanonicalShape(normOut)

\* A token that denotes a negative number: a minus sign, then digits,
\* colons and dots that begin with a digit and hold a digit other than 0.
IsNegativeToken(t) ==
    /\ Len(t) >= 2 /\ t[1] = "-" /\ IsDigit(t[2])
    /\ \A i \in 2..Len(t) : IsTimeChar(t[i])
    /\ \E i \in 2..Len(t) : IsDigit(t[i]) /\ t[i] # "0"

\* C11: a timestamp token whose numeric value is negative ("-5", "-00:05")
\* normalizes to zero seconds: normalizeTimestamp returns "00:00:00.000".
C11_NegativeClampsToZero ==
    (pc = "norm_done" /\ IsNegativeToken(ts)) => normOut = ZeroStamp

\* ------------------------------------------------------------------------
\* ActiveSegmentResolver: parseTimestamp and findActive (App)
\* ------------------------------------------------------------------------
EPSILON_MS == 50

\* str.replace(/[ms]/g, '')
NotUnitLetter(c) == c \notin {"m", "s"}

\* parseFloat(p) || 0 in milliseconds: whole seconds and the first three
\* fraction digits (the stored times have millisecond resolution).
ParseFloatMs(p) ==
    LET x == ParseFloat(p)
    IN  IF x.nan THEN 0
        ELSE x.whole * 1000 + DigitsValue(Substring0(PadEnd(x.frac, 3, "0"), 3))

\* parseTimestamp of App (lines 31-46), the result in milliseconds.  The
\* strings it is applied to hold digits, colons, dots, commas and unit
\* letters; toLowerCase changes none of them.
parseTimestamp(timestamp) ==
    LET str   == ReplaceFirstChar(SelectSeq(Trim(timestamp), NotUnitLetter), ",", ".")
        parts == Split(str, ":")
    IN  IF Includes(str, ":") /\ Len(parts) = 3
        THEN ParseFloatMs(parts[1]) * 3600 + ParseFloatMs(parts[2]) * 60
               + ParseFloatMs(parts[3])
        ELSE IF Includes(str, ":") /\ Len(parts) = 2
        THEN ParseFloatMs(parts[1]) * 60 + ParseFloatMs(parts[2])
        ELSE ParseFloatMs(str)

\* ------------------------------------------------------------------------
\* Claims about the reading of the fields by normalizeTimestamp (checked
\* under SpecNorm); the returned string is read back field by field.
\* ------------------------------------------------------------------------
\* A token of digits, colons and dots only, but for one decimal comma.
IsPlainToken(t) == \A i \in 1..Len(t) : IsTimeChar(ReplaceFirstChar(t, ",", ".")[i])

\* The colon-delimited components of a token, its decimal comma as a dot.
ComponentsOf(t) == Split(ReplaceFirstChar(t, ",", "."), ":")

\* The time in milliseconds that three components denote under the rule
\* of C12.
ThreeComponentTime(c) ==
    IF Includes(c[3], ".")
    THEN ParseIntOr0(c[1]) * 3600000 + ParseIntOr0(c[2]) * 60000 + ParseFloatMs(c[3])
    ELSE IF Len(c[3]) = 3 \/ ParseIntOr0(c[3]) > 59
    THEN ParseIntOr0(c[1]) * 60000 + ParseIntOr0(c[2]) * 1000 + ParseIntOr0(c[3])
    ELSE ParseIntOr0(c[1]) * 3600000 + ParseIntOr0(c[2]) * 60000 + ParseIntOr0(c[3]) * 1000

\* The time in milliseconds a returned string denotes: hours, minutes and
\* seconds with their fraction, read field by field.
DenotedTime(out) ==
    LET f == Split(out, ":")
    IN  ParseIntOr0(f[1]) * 3600000 + ParseIntOr0(f[2]) * 60000 + ParseFloatMs(f[3])

FieldsTime(c) ==
    IF Len(c) = 1
    THEN (IF ParseFloat(c[1]).nan THEN 0
          ELSE ParseFloat(c[1]).whole * 1000 + RoundFrac(ParseFloat(c[1]).frac, 3))
    ELSE IF Len(c) = 2 THEN ParseIntOr0(c[1]) * 60000 + ParseFloatMs(c[2])
    ELSE IF Len(c) = 3 THEN ThreeComponentTime(c)
    ELSE ParseIntOr0(c[1]) * 3600000 + ParseIntOr0(c[2]) * 60000 + ParseIntOr0(c[3]) * 1000
           + ParseIntOr0(PadEnd(Substring0(c[4], 3), 3, "0"))

\* A token of one to four components, the fourth (if any) without a dot.
HasFields(t) ==
    /\ IsPlainToken(t)
    /\ Len(ComponentsOf(t)) <= 4
    /\ Len(ComponentsOf(t)) = 4 => ~Includes(ComponentsOf(t)[4], ".")

\* C13: the output is re-derived from the total of the decomposed fields:
\* for every input its minutes field and its seconds field are at most 59,
\* and it denotes the same total time as the fields of the input, a field
\* of 60 or more rolling into the next larger unit ("00:65.250" gives
\* "00:01:05.250", "00:23" gives "00:00:23.000").
C13_ReducedSameTotal ==
    pc = "norm_done" =>
        /\ Len(Split(normOut, ":")) = 3
        /\ ParseIntOr0(Split(normOut, ":")[2]) <= 59
        /\ ParseIntOr0(Split(normOut, ":")[3]) <= 59
        /\ HasFields(ts) => DenotedTime(normOut) = FieldsTime(ComponentsOf(ts))

\* C28: normalizeTimestamp is idempotent: normalizing the string it returned
\* for a token returns that string again.
C28_Idempotent ==
    pc = "norm_done" => normalizeTimestamp(normOut) = normOut

\* ------------------------------------------------------------------------
\* Inputs of the lyric (LRC) export
\* ------------------------------------------------------------------------
MaxLrcTick == 5
MaxLrcSegs == 2

\* Segment starts: a 2 s grid, one start a millisecond past the grid and one
\* just below a full minute; a segment lasts 2 s or has no length, or its
\* end lies 6 s before its start (upstream data may violate end >= start).
LrcStarts == {2000 * k : k \in 0..MaxLrcTick} \cup {6001, 59996}

LrcEndsOf(a) == {a, a + 2000} \cup (IF a >= 6000 THEN {a - 6000} ELSE {})

LrcTimes == LrcStarts \cup UNION {LrcEndsOf(a) : a \in LrcStarts}

MaxTick == 3
MaxSegs == 2

\* Times on a 25 ms grid, so that the 50 ms buffer spans two grid steps.
TickTimes == {25 * k : k \in 0..MaxTick}

PlayheadTimes == {25 * k : k \in 0..(MaxTick + 3)}

\* The canonical string of a time in milliseconds.
Stamp(ms) == FormatStamp(ms \div 1000, ms % 1000)

Undefined == <<"undefined">>

\* parseTimestamp of every stored time string, computed once (the function
\* is pure; the table only saves re-evaluation).
StoredTimes == TickTimes \cup LrcTimes

ParsedTimes == [x \in {Stamp(ms) : ms \in StoredTimes} |-> parseTimestamp(x)]

TimedSegments ==
    {[startTime |-> Stamp(a), endTime |-> Stamp(b), text |-> <<"a">>,
      translatedText |-> Undefined] : a \in TickTimes, b \in TickTimes}

\* The first index from i on (1-based) whose segment contains t, 0 if none:
\* normalized.filter(m => currentTime >= m.start && currentTime < m.end)[0].
RECURSIVE FirstExactMatch(_, _, _)
FirstExactMatch(segs, t, i) ==
    IF i > Len(segs) THEN 0
    ELSE IF t >= ParsedTimes[segs[i].startTime] /\ t < ParsedTimes[segs[i].endTime]
    THEN i
    ELSE FirstExactMatch(segs, t, i + 1)

\* The fallback loop of lines 287-294: candidateIdx after visiting the
\* segments from i on, stopping at the first that starts after t + EPSILON.
RECURSIVE FallbackScan(_, _, _, _)
FallbackScan(segs, t, i, candidateIdx) ==
    IF i > Len(segs) THEN candidateIdx
    ELSE IF t >= ParsedTimes[segs[i].startTime] - EPSILON_MS
    THEN FallbackScan(segs, t, i + 1, i - 1)
    ELSE candidateIdx

findActive_fallbackOnly(segs, t) ==
    IF Len(segs) = 0 THEN -1 ELSE FallbackScan(segs, t, 1, -1)

\* findActive (lines 271-296): the 0-based index of the active segment, or -1.
findActive(segs, t) ==
    IF Len(segs) = 0 THEN -1
    ELSE LET e == FirstExactMatch(segs, t, 1)
         IN  IF e # 0 THEN e - 1 ELSE FallbackScan(segs, t, 1, -1)

\* ------------------------------------------------------------------------
\* Specification of the resolver: a lane holds a segment list, the audio
\* element reports playhead positions, and every render recomputes the
\* active index.
\* ------------------------------------------------------------------------
InitActive ==
    /\ pc = "playing"
    /\ results = Unused /\ runs = Unused /\ translations = Unused
    /\ segments \in SeqsOf(TimedSegments, 0, MaxSegs)
    /\ currentTime = 0
    /\ activeIdx = findActive(segments, 0)
    /\ ts = Unused /\ normOut = Unused /\ upstream = Unused /\ blob = Unused
    /\ repairOut = Unused
    /\ duration = Unused /\ exportType = Unused /\ content = Unused

\* handleTimeUpdate: setCurrentTime(audioRef.current.currentTime), and the
\* useMemo of activeIndices that the re-render runs.
handleTimeUpdate ==
    /\ pc = "playing"
    /\ \E t \in PlayheadTimes :
          /\ currentTime' = t
          /\ activeIdx' = findActive(segments, t)
    /\ UNCHANGED <<results, runs, translations, pc, ts, normOut, upstream, blob, repairOut, segments, duration,
                   exportType, content>>

NextActive == handleTimeUpdate

SpecActive == InitActive /\ [][NextActive]_vars

\* ------------------------------------------------------------------------
\* Claims about findActive (checked under SpecActive)
\* ------------------------------------------------------------------------
SegStart(i) == ParsedTimes[segments[i].startTime]

SegEnd(i) == ParsedTimes[segments[i].endTime]

Contains(i) == SegStart(i) <= currentTime /\ currentTime < SegEnd(i)

NoneContains == \A i \in 1..Len(segments) : ~Contains(i)

\* The segments that start at or before playhead + 0.05 s.
Started == {i \in 1..Len(segments) : SegStart(i) <= currentTime + 50}

\* The last of them in ascending startTime order (list order among equal
\* starts).
LastStarted ==
    CHOOSE i \in Started :
        \A j \in Started : SegStart(j) < SegStart(i) \/ (SegStart(j) = SegStart(i) /\ j <= i)

\* C6: when no segment contains the playhead, findActive returns the index
\* of the last segment, in ascending startTime order, whose start is
\* <= playhead + 0.05, and -1 only when there is no such segment; also for
\* lists that are not sorted by startTime.
C6_FallbackLastStarted ==
    (pc = "playing" /\ NoneContains) =>
        activeIdx = (IF Started = {} THEN -1 ELSE LastStarted - 1)

\* C7: whenever some segment contains the playhead (start <= playhead < end),
\* findActive returns the lowest such index; for adjacent segments
\* (a,b),(b,c) the playhead b selects the second and a playhead in [a,b)
\* the first.
C7_FirstContaining ==
    pc = "playing" =>
        /\ \A i \in 1..Len(segments) :
              (Contains(i) /\ \A j \in 1..(i - 1) : ~Contains(j)) => activeIdx = i - 1
        /\ (/\ Len(segments) = 2
            /\ SegEnd(1) = SegStart(2)
            /\ SegStart(1) < SegEnd(1) /\ SegStart(2) < SegEnd(2))
           => /\ currentTime = SegStart(2) => activeIdx = 1
              /\ (SegStart(1) <= currentTime /\ currentTime < SegEnd(1)) => activeIdx = 0

C7_Witness ==
    /\ pc = "playing"
    /\ Len(segments) = 2
    /\ segments[1].startTime = Stamp(0) /\ segments[1].endTime = Stamp(25)
    /\ segments[2].startTime = Stamp(25) /\ segments[2].endTime = Stamp(75)
    /\ currentTime = 25
    /\ activeIdx = 1

\* The list is sorted by start time and its segments do not overlap: each
\* ends at or after its start and at or before the next start.
SortedDisjoint ==
    /\ \A i \in 1..Len(segments) : SegStart(i) <= SegEnd(i)
    /\ \A i \in 1..(Len(segments) - 1) : SegEnd(i) <= SegStart(i + 1)

\* C27: for a list sorted by start time whose segments do not overlap, the
\* index findActive returns never decreases while the playhead advances,
\* segments shorter than the 0.05 s buffer included.
C27_ActiveNeverDecreases ==
    [][(SortedDisjoint /\ currentTime' >= currentTime) => activeIdx' >= activeIdx]_vars

\* The segments a lane's list renders with isActive = true (0-based), as
\* src/App.tsx computes the flag (lines 298-301): from each segment's own
\* start and end.
ActiveItems_AppTsx == {i \in 0..(Len(segments) - 1) : Contains(i + 1)}

\* The same set as part_001 computes the flag (line 579):
\* isActive={activeIdx === idx}.
ActiveItems == {i \in 0..(Len(segments) - 1) : activeIdx = i}

\* C29: at every playhead value at most one segment of a lane is rendered
\* as active, also when several segments overlap and all contain the
\* playhead; in the rendering of part_001 and in that of src/App.tsx.
C29_AtMostOneActive ==
    pc = "playing" =>
        /\ Cardinality(ActiveItems) <= 1
        /\ Cardinality(ActiveItems_AppTsx) <= 1

\* The same statement for the rendering of part_001 alone; it holds.
AtMostOneActive_part001 == pc = "playing" => Cardinality(ActiveItems) <= 1

\* ------------------------------------------------------------------------
\* FormatExporter: the lyric (LRC) export (utils/exporters) and
\* handleDownload (App)
\* ------------------------------------------------------------------------
CLEAR_AFTER_MS == 4000

\* parseTimestampToSeconds (exporters.ts lines 101-111), in milliseconds.
\* Number(p) equals parseFloat(p) on the components of stored times (digits
\* with at most one dot), and Number("") is 0.
parseTimestampToSeconds(t) ==
    IF t = <<>> THEN 0
    ELSE LET parts == Split(ReplaceFirstChar(t, ",", "."), ":")
         IN  IF Len(parts) = 3
             THEN ParseFloatMs(parts[1]) * 3600 + ParseFloatMs(parts[2]) * 60
                    + ParseFloatMs(parts[3])
             ELSE IF Len(parts) = 2
             THEN ParseFloatMs(parts[1]) * 60 + ParseFloatMs(parts[2])
             ELSE IF Len(parts) = 1 THEN ParseFloatMs(parts[1])
             ELSE 0

\* formatSecondsToLRC (exporters.ts lines 123-128): (t % 60).toFixed(2)
\* rounds the seconds to hundredths; its two pieces are padded to two.
formatSecondsToLRC(totalMs) ==
    LET hundredths == ((totalMs % 60000) + 5) \div 10
        ss == NumToStr(hundredths \div 100)
        ms == PadStart(NumToStr(hundredths % 100), 2, "0")
    IN  <<"[">> \o PadStart(NumToStr(totalMs \div 60000), 2, "0") \o <<":">>
          \o PadStart(ss, 2, "0") \o <<".">>
          \o PadEnd(Substring0(ms, 2), 2, "0") \o <<"]">>

\* formatSecondsToLRC of the other exporter file (part_004 lines 31-38):
\* floor of the seconds and Math.round((s % 1) * 100).
formatSecondsToLRC_part004(totalMs) ==
    <<"[">> \o PadStart(NumToStr(totalMs \div 60000), 2, "0") \o <<":">>
      \o PadStart(NumToStr((totalMs % 60000) \div 1000), 2, "0") \o <<".">>
      \o PadStart(NumToStr(((totalMs % 1000) + 5) \div 10), 2, "0") \o <<"]">>

\* The two pure functions on every stored time, computed once.
SecondsOf == [x \in {Stamp(ms) : ms \in StoredTimes} |-> parseTimestampToSeconds(x)]

LrcTagOf ==
    [ms \in StoredTimes \cup {t + CLEAR_AFTER_MS : t \in StoredTimes} |->
        formatSecondsToLRC(ms)]

LrcTagOf_part004 == [ms \in StoredTimes |-> formatSecondsToLRC_part004(ms)]

SelectedText_noFallback(s, type) ==
    IF type = "translated" THEN s.translatedText ELSE s.text

\* type === 'translated' ? (s.translatedText || '') : s.text
SelectedText(s, type) ==
    IF type = "translated"
    THEN (IF s.translatedText = Undefined THEN <<>> ELSE s.translatedText)
    ELSE s.text

\* lines.join('\n')
RECURSIVE Join(_)
Join(lines) ==
    IF lines = <<>> THEN <<>>
    ELSE IF Len(lines) = 1 THEN lines[1]
    ELSE lines[1] \o <<"\n">> \o Join(Tail(lines))

GapExceeds_orEqual(nextStartTime, clearingTime) == nextStartTime >= clearingTime

\* nextStartTime > clearingTime (line 175)
GapExceeds(nextStartTime, clearingTime) == nextStartTime > clearingTime

\* The test of lines 183-191 on the final segment: totalDuration undefined,
\* or clearingTime <= totalDuration (false for NaN, true for Infinity).
FitsDuration(clearingTime, totalDuration) ==
    CASE totalDuration.kind = "undefined" -> TRUE
      [] totalDuration.kind = "NaN" -> FALSE
      [] totalDuration.kind = "Infinity" -> TRUE
      [] OTHER -> clearingTime <= totalDuration.ms

\* The lines one pass of the loop (lines 160-193) pushes for segment i.
LrcLinesOf(segs, i, type, totalDuration) ==
    LET s == segs[i]
        clearingTime == SecondsOf[s.endTime] + CLEAR_AFTER_MS
        lyric == <<LrcTagOf[SecondsOf[s.startTime]] \o SelectedText(s, type)>>
        marker == <<LrcTagOf[clearingTime]>>
    IN  IF i < Len(segs)
        THEN IF GapExceeds(SecondsOf[segs[i + 1].startTime], clearingTime)
             THEN lyric \o marker ELSE lyric
        ELSE IF FitsDuration(clearingTime, totalDuration)
             THEN lyric \o marker ELSE lyric

RECURSIVE LrcLinesFrom(_, _, _, _)
LrcLinesFrom(segs, i, type, totalDuration) ==
    IF i > Len(segs) THEN <<>>
    ELSE LrcLinesOf(segs, i, type, totalDuration)
           \o LrcLinesFrom(segs, i + 1, type, totalDuration)

\* exportAsLRC (exporters.ts lines 158-195)
exportAsLRC(segs, type, totalDuration) ==
    Join(LrcLinesFrom(segs, 1, type, totalDuration))

\* text.replace(/[\r\n]+/g, ' '): each run of line breaks becomes one blank.
RECURSIVE CollapseNewlines(_)
CollapseNewlines(text) ==
    IF text = <<>> THEN <<>>
    ELSE IF text[1] \in {"\n", "\r"}
    THEN IF Len(text) > 1 /\ text[2] \in {"\n", "\r"}
         THEN CollapseNewlines(Tail(text))
         ELSE <<" ">> \o CollapseNewlines(Tail(text))
    ELSE <<text[1]>> \o CollapseNewlines(Tail(text))

\* exportAsLRC of the other exporter file (part_004 lines 80-96): one line
\* per segment, no clearing markers; totalDuration is not read.
exportAsLRC_part004(segs, type, totalDuration) ==
    Join([i \in 1..Len(segs) |->
            LrcTagOf_part004[SecondsOf[segs[i].startTime]]
              \o CollapseNewlines(SelectedText(segs[i], type))])

\* ------------------------------------------------------------------------
\* Specification of the lyric export: a lane holds segments, the audio
\* element reports some duration, and the user downloads the LRC file.
\* ------------------------------------------------------------------------
LrcTexts ==
    {[text |-> <<"a">>, translatedText |-> Undefined],
     [text |-> <<"a", "\n", "b">>, translatedText |-> <<"c">>]}

LrcSegments ==
    UNION {{[startTime |-> Stamp(a), endTime |-> Stamp(b), text |-> x.text,
             translatedText |-> x.translatedText] :
               b \in LrcEndsOf(a), x \in LrcTexts} : a \in LrcStarts}

\* audioRef.current?.duration: undefined without an audio element, NaN
\* before the metadata is known, Infinity for a stream, else seconds.
LrcDurations ==
    {[kind |-> k, ms |-> 0] : k \in {"undefined", "NaN", "Infinity"}}
      \cup {[kind |-> "number", ms |-> d] : d \in {14000, 16000}}

InitLrc ==
    /\ pc = "export_ready"
    /\ results = Unused /\ runs = Unused /\ translations = Unused
    /\ segments \in SeqsOf(LrcSegments, 0, MaxLrcSegs)
    /\ duration \in LrcDurations
    /\ exportType = Unused /\ content = Unused
    /\ ts = Unused /\ normOut = Unused /\ upstream = Unused /\ blob = Unused
    /\ repairOut = Unused
    /\ currentTime = 0 /\ activeIdx = -1

\* handleDownload(side, 'LRC', type) of App (part_001 lines 365-380) with
\* the exporter of utils/exporters.ts.
handleDownload ==
    /\ pc = "export_ready"
    /\ \E type \in {"original", "translated"} :
          /\ exportType' = type
          /\ IF Len(segments) = 0
             THEN pc' = "export_returned" /\ content' = content
             ELSE /\ pc' = "export_done"
                  /\ content' = exportAsLRC(segments, type, duration)
    /\ UNCHANGED <<results, runs, translations, ts, normOut, upstream, blob, repairOut, segments, currentTime, activeIdx,
                   duration>>

\* The same handler with the exporter of the other exporter file.
handleDownload_part004 ==
    /\ pc = "export_ready"
    /\ Len(segments) # 0
    /\ \E type \in {"original", "translated"} :
          /\ exportType' = type
          /\ pc' = "export_done_part004"
          /\ content' = exportAsLRC_part004(segments, type, duration)
    /\ UNCHANGED <<results, runs, translations, ts, normOut, upstream, blob, repairOut, segments, currentTime, activeIdx,
                   duration>>

NextLrc == handleDownload \/ handleDownload_part004

SpecLrc == InitLrc /\ [][NextLrc]_vars

\* ------------------------------------------------------------------------
\* Claims about the lyric export (checked under SpecLrc)
\* ------------------------------------------------------------------------
\* A line that begins with [MM:SS.hh]: two-digit minutes, two-digit seconds
\* of 00-59, two-digit hundredths.
HasLrcTag(line) ==
    /\ Len(line) >= 10
    /\ line[1] = "[" /\ line[4] = ":" /\ line[7] = "." /\ line[10] = "]"
    /\ \A i \in {2, 3, 5, 6, 8, 9} : IsDigit(line[i])
    /\ DigitVal(line[5]) <= 5

\* C8: every line of exportAsLRC's output begins with a time tag of the
\* exact form [MM:SS.hh] (seconds 00-59, hundredths 00-99), for every
\* canonical time, and each segment contributes exactly one lyric line
\* (beside at most one marker line), newlines in its text being replaced.
C8_LrcLineShape ==
    pc \in {"export_done", "export_done_part004"} =>
        LET lines == Split(content, "\n")
        IN  /\ \A i \in 1..Len(lines) : HasLrcTag(lines[i])
            /\ Len(lines) <= 2 * Len(segments)

\* The claimed rule for the lines up to the last lyric line: each segment's
\* lyric line, followed by a marker at end + 4 s exactly when the next
\* segment starts more than 4 s after this one ends.
RECURSIVE LinesByGapRule(_)
LinesByGapRule(i) ==
    IF i > Len(segments) THEN <<>>
    ELSE <<LrcTagOf[SecondsOf[segments[i].startTime]]
             \o SelectedText(segments[i], exportType)>>
           \o (IF i < Len(segments)
                  /\ SecondsOf[segments[i + 1].startTime] - SecondsOf[segments[i].endTime] > 4000
               THEN <<LrcTagOf[SecondsOf[segments[i].endTime] + 4000]>>
               ELSE <<>>)
           \o LinesByGapRule(i + 1)

TrailingMarker == <<LrcTagOf[SecondsOf[segments[Len(segments)].endTime] + 4000]>>

C10_TrailingMarkerRule ==
    pc = "export_done" =>
        LET clearingTime == SecondsOf[segments[Len(segments)].endTime] + 4000
            emitted == duration.kind # "number" \/ clearingTime <= duration.ms
        IN  content = Join(LinesByGapRule(1) \o (IF emitted THEN TrailingMarker ELSE <<>>))

\* The list is sorted by start time.
SortedByStart(segs) ==
    \A i \in 1..(Len(segs) - 1) :
        SecondsOf[segs[i].startTime] <= SecondsOf[segs[i + 1].startTime]

\* The lines of an output that begin with a time tag, in order.
TaggedLines(c) == SelectSeq(Split(c, "\n"), LAMBDA l : Len(l) >= 10 /\ l[1] = "[")

\* The time of the tag [MM:SS.hh] of a line, in hundredths of a second.
TagValue(line) ==
    DigitsValue(<<line[2], line[3]>>) * 6000 + DigitsValue(<<line[5], line[6]>>) * 100
      + DigitsValue(<<line[8], line[9]>>)

TagsAscend(lines) ==
    \A i \in 1..(Len(lines) - 1) : TagValue(lines[i]) <= TagValue(lines[i + 1])

\* C30: for a list sorted by start time the time tags of the lines of
\* exportAsLRC's output, lyric lines and clearing markers together, never
\* decrease from one line to the next, also when a segment ends before it
\* starts.
C30_TagsAscend ==
    (pc = "export_done" /\ SortedByStart(segments)) => TagsAscend(TaggedLines(content))

\* ------------------------------------------------------------------------
\* ResponseRepairer (src/unnamed/part_002, tryRepairJson lines 115-165 and
\* the tail of transcribeAudio, lines 282-304).
\*
\* JSON.parse is modelled character by character for the JSON grammar:
\* objects, arrays, strings with their escapes, numbers and the three
\* literals.  A parsed value is a record [t, v]: t names the type and v
\* holds the characters of a string, the literal text of a number, the
\* elements of an array or the members [k, val] of an object.
\* ------------------------------------------------------------------------
JsonWs == {" ", "\t", "\n", "\r"}

HexDigits == Digits \cup {"a", "b", "c", "d", "e", "f", "A", "B", "C", "D", "E", "F"}

\* The backspace character, which has no escape in a TLA+ string.
Backspace == "<BS>"

JsUndefined == [t |-> "undefined", v |-> <<>>]

JsStr(chars) == [t |-> "str", v |-> chars]

\* A failed parse (JSON.parse throws SyntaxError).
SyntaxError == [ok |-> FALSE, val |-> JsUndefined, pos |-> 0]

Parsed(val, pos) == [ok |-> TRUE, val |-> val, pos |-> pos]

RECURSIVE SkipWs(_, _)
SkipWs(s, i) ==
    IF i <= Len(s) /\ s[i] \in JsonWs THEN SkipWs(s, i + 1) ELSE i

RECURSIVE SkipDigits(_, _)
SkipDigits(s, i) ==
    IF i <= Len(s) /\ IsDigit(s[i]) THEN SkipDigits(s, i + 1) ELSE i

\* The character a two-character JSON escape denotes.
JsonEscape ==
    [e \in {"\"", "\\", "/", "b", "f", "n", "r", "t"} |->
        CASE e = "b" -> Backspace [] e = "f" -> "\f" [] e = "n" -> "\n"
          [] e = "r" -> "\r" [] e = "t" -> "\t" [] OTHER -> e]

\* The body of a JSON string from position i (after the opening quote), acc
\* holding the characters read so far.  A \uXXXX escape denotes one code
\* unit, kept under its own name; an unescaped control character (U+0000
\* to U+001F) is an error.
RECURSIVE JsonStringBody(_, _, _)
JsonStringBody(s, i, acc) ==
    IF i > Len(s) THEN SyntaxError
    ELSE IF s[i] = "\"" THEN Parsed(JsStr(acc), i + 1)
    ELSE IF s[i] = "\\" THEN
        IF i + 1 > Len(s) THEN SyntaxError
        ELSE IF s[i + 1] \in DOMAIN JsonEscape
             THEN JsonStringBody(s, i + 2, Append(acc, JsonEscape[s[i + 1]]))
        ELSE IF /\ s[i + 1] = "u" /\ i + 5 <= Len(s)
                /\ \A k \in 2..5 : s[i + k] \in HexDigits
             THEN JsonStringBody(s, i + 6,
                      Append(acc, "\\u" \o s[i + 2] \o s[i + 3] \o s[i + 4] \o s[i + 5]))
        ELSE SyntaxError
    ELSE IF s[i] \in {"\t", "\n", "\r", "\f"} THEN SyntaxError
    ELSE JsonStringBody(s, i + 1, Append(acc, s[i]))

\* A JSON number starting at i: -? int frac? exp?.  Each part returns the
\* position after it, 0 when the number is malformed.
JsonIntEnd(s, i) ==
    LET d == SkipDigits(s, i)
    IN  IF d = i \/ (s[i] = "0" /\ d > i + 1) THEN 0 ELSE d

JsonFracEnd(s, p) ==
    IF p = 0 THEN 0
    ELSE IF p <= Len(s) /\ s[p] = "."
         THEN LET d == SkipDigits(s, p + 1) IN IF d = p + 1 THEN 0 ELSE d
    ELSE p

JsonExpEnd(s, p) ==
    IF p = 0 THEN 0
    ELSE IF p <= Len(s) /\ s[p] \in {"e", "E"}
         THEN LET q == IF p + 1 <= Len(s) /\ s[p + 1] \in {"+", "-"} THEN p + 2 ELSE p + 1
                  d == SkipDigits(s, q)
              IN  IF d = q THEN 0 ELSE d
    ELSE p

\* The value keeps the literal text of the number.
JsonNumber(s, i) ==
    LET e == JsonExpEnd(s, JsonFracEnd(s, JsonIntEnd(s, IF s[i] = "-" THEN i + 1 ELSE i)))
    IN  IF e = 0 THEN SyntaxError
        ELSE Parsed([t |-> "num", v |-> SubSeq(s, i, e - 1)], e)

JsonLiteral(s, i, word) ==
    IF i + Len(word) - 1 <= Len(s) /\ SubSeq(s, i, i + Len(word) - 1) = word
    THEN Parsed([t |-> "lit", v |-> word], i + Len(word))
    ELSE SyntaxError

RECURSIVE JsonValue(_, _)
RECURSIVE JsonElements(_, _, _)
RECURSIVE JsonMembers(_, _, _)

\* The value starting at i (white space already skipped).
JsonValue(s, i) ==
    IF i > Len(s) THEN SyntaxError
    ELSE IF s[i] = "\"" THEN JsonStringBody(s, i + 1, <<>>)
    ELSE IF s[i] = "[" THEN
        LET j == SkipWs(s, i + 1)
        IN  IF j <= Len(s) /\ s[j] = "]"
            THEN Parsed([t |-> "arr", v |-> <<>>], j + 1)
            ELSE JsonElements(s, j, <<>>)
    ELSE IF s[i] = "{" THEN
        LET j == SkipWs(s, i + 1)
        IN  IF j <= Len(s) /\ s[j] = "}"
            THEN Parsed([t |-> "obj", v |-> <<>>], j + 1)
            ELSE JsonMembers(s, j, <<>>)
    ELSE IF s[i] = "-" \/ IsDigit(s[i]) THEN JsonNumber(s, i)
    ELSE IF s[i] = "t" THEN JsonLiteral(s, i, <<"t", "r", "u", "e">>)
    ELSE IF s[i] = "f" THEN JsonLiteral(s, i, <<"f", "a", "l", "s", "e">>)
    ELSE IF s[i] = "n" THEN JsonLiteral(s, i, StrNull)
    ELSE SyntaxError

\* After the element r of an array: "," and the next element, or "]".
JsonAfterElement(s, r, acc) ==
    IF ~r.ok THEN SyntaxError
    ELSE LET j == SkipWs(s, r.pos)
         IN  IF j > Len(s) THEN SyntaxError
             ELSE IF s[j] = "," THEN JsonElements(s, SkipWs(s, j + 1), Append(acc, r.val))
             ELSE IF s[j] = "]" THEN Parsed([t |-> "arr", v |-> Append(acc, r.val)], j + 1)
             ELSE SyntaxError

\* The elements of an array from position i, up to and including "]".
JsonElements(s, i, acc) == JsonAfterElement(s, JsonValue(s, i), acc)

\* After the member key: r of an object: "," and the next member, or "}".
JsonAfterMember(s, key, r, acc) ==
    IF ~r.ok THEN SyntaxError
    ELSE LET j == SkipWs(s, r.pos)
             m == [k |-> key, val |-> r.val]
         IN  IF j > Len(s) THEN SyntaxError
             ELSE IF s[j] = "," THEN JsonMembers(s, SkipWs(s, j + 1), Append(acc, m))
             ELSE IF s[j] = "}" THEN Parsed([t |-> "obj", v |-> Append(acc, m)], j + 1)
             ELSE SyntaxError

\* After the key of a member: ":" and the value.
JsonAfterKey(s, key, acc) ==
    IF ~key.ok THEN SyntaxError
    ELSE LET c == SkipWs(s, key.pos)
         IN  IF c <= Len(s) /\ s[c] = ":"
             THEN JsonAfterMember(s, key.val.v, JsonValue(s, SkipWs(s, c + 1)), acc)
             ELSE SyntaxError

\* The members of an object from position i, up to and including "}".
JsonMembers(s, i, acc) ==
    IF i > Len(s) \/ s[i] # "\"" THEN SyntaxError
    ELSE JsonAfterKey(s, JsonStringBody(s, i + 1, <<>>), acc)

\* JSON.parse(s): one value between optional white space, else SyntaxError.
JSONparse(s) ==
    LET r == JsonValue(s, SkipWs(s, 1))
    IN  IF r.ok /\ SkipWs(s, r.pos) = Len(s) + 1 THEN r ELSE SyntaxError

\* value[key] for a parsed value: the last member of that name of an
\* object, undefined otherwise.
RECURSIVE GetFrom(_, _, _)
GetFrom(members, key, i) ==
    IF i < 1 THEN JsUndefined
    ELSE IF members[i].k = key THEN members[i].val
    ELSE GetFrom(members, key, i - 1)

GetProp(value, key) ==
    IF value.t = "obj" THEN GetFrom(value.v, key, Len(value.v)) ELSE JsUndefined

\* ------------------------------------------------------------------------
\* The pattern scan of tryRepairJson (lines 141-158).  segmentRegex is
\*   \{ \s* "startTime" \s* : \s* "? ([^",]+) "? \s* ,
\*      \s* "endTime"   \s* : \s* "? ([^",]+) "? \s* ,
\*      \s* "text" \s* : \s* (?: "((?:[^"\\]|\\.)*)" | '((?:[^'\\]|\\.)*)' )
\* Every quantifier in it is followed by something its own characters
\* cannot match, so the greedy attempt at a start position is the only
\* one that can succeed; the matcher below follows that attempt.  A
\* position of 0 stands for "no match".
\* ------------------------------------------------------------------------
RegexWs == {" ", "\t", "\n", "\r", "\f"}

KeyStartTime == <<"\"", "s", "t", "a", "r", "t", "T", "i", "m", "e", "\"">>

KeyEndTime == <<"\"", "e", "n", "d", "T", "i", "m", "e", "\"">>

KeyText == <<"\"", "t", "e", "x", "t", "\"">>

NameSegments == <<"s", "e", "g", "m", "e", "n", "t", "s">>

\* \s* from position p.
RECURSIVE ReWs(_, _)
ReWs(s, p) ==
    IF p = 0 THEN 0
    ELSE IF p <= Len(s) /\ s[p] \in RegexWs THEN ReWs(s, p + 1) ELSE p

\* A literal word at position p.
ReLit(s, p, word) ==
    IF p = 0 \/ p + Len(word) - 1 > Len(s) THEN 0
    ELSE IF SubSeq(s, p, p + Len(word) - 1) = word THEN p + Len(word) ELSE 0

\* "?  from position p.
ReOptQuote(s, p) ==
    IF p = 0 THEN 0
    ELSE IF p <= Len(s) /\ s[p] = "\"" THEN p + 1 ELSE p

\* [^",]+ from position p: the end of the longest run, 0 if it is empty.
RECURSIVE ReRunEnd(_, _)
ReRunEnd(s, p) ==
    IF p <= Len(s) /\ s[p] \notin {"\"", ","} THEN ReRunEnd(s, p + 1) ELSE p

ReRun(s, p) ==
    IF p = 0 THEN 0
    ELSE LET e == ReRunEnd(s, p) IN IF e > p THEN e ELSE 0

\* (?:[^q\\]|\\.)* followed by the closing quote q, from position p: the
\* position of the closing quote, 0 if the body does not reach one.  The
\* "." does not match a line terminator.
RECURSIVE ReTextEnd(_, _, _)
ReTextEnd(s, p, q) ==
    IF p > Len(s) THEN 0
    ELSE IF s[p] = q THEN p
    ELSE IF s[p] = "\\" THEN
        IF p + 1 <= Len(s) /\ s[p + 1] \notin {"\n", "\r"}
        THEN ReTextEnd(s, p + 2, q) ELSE 0
    ELSE ReTextEnd(s, p + 1, q)

\* One attempt of segmentRegex at position i.
RegexMatchAt(s, i) ==
    LET a0 == ReWs(s, ReLit(s, ReWs(s, ReLit(s, ReWs(s, ReLit(s, i, <<"{">>)), KeyStartTime)), <<":">>))
        a1 == ReOptQuote(s, a0)
        a2 == ReRun(s, a1)
        b0 == ReWs(s, ReLit(s, ReWs(s, ReLit(s, ReWs(s,
                  ReLit(s, ReWs(s, ReOptQuote(s, a2)), <<",">>)), KeyEndTime)), <<":">>))
        b1 == ReOptQuote(s, b0)
        b2 == ReRun(s, b1)
        c0 == ReWs(s, ReLit(s, ReWs(s, ReLit(s, ReWs(s,
                  ReLit(s, ReWs(s, ReOptQuote(s, b2)), <<",">>)), KeyText)), <<":">>))
        q  == IF c0 # 0 /\ c0 <= Len(s) /\ s[c0] \in {"\"", "'"} THEN s[c0] ELSE ""
        c1 == IF q = "" THEN 0 ELSE ReTextEnd(s, c0 + 1, q)
    IN  IF c1 = 0 THEN [ok |-> FALSE]
        ELSE [ok |-> TRUE, m1 |-> SubSeq(s, a1, a2 - 1), m2 |-> SubSeq(s, b1, b2 - 1),
              rawText |-> SubSeq(s, c0 + 1, c1 - 1), lastIndex |-> c1 + 1]

\* String.prototype.replace(/c/g, by) for a one-character pattern.
RECURSIVE ReplaceAllChar(_, _, _)
ReplaceAllChar(s, c, by) ==
    IF s = <<>> THEN <<>>
    ELSE (IF s[1] = c THEN by ELSE <<s[1]>>) \o ReplaceAllChar(Tail(s), c, by)

\* String.prototype.replace(/\\c/g, by): a backslash followed by c.
RECURSIVE ReplaceAllEscaped(_, _, _)
ReplaceAllEscaped(s, c, by) ==
    IF s = <<>> THEN <<>>
    ELSE IF Len(s) >= 2 /\ s[1] = "\\" /\ s[2] = c
         THEN by \o ReplaceAllEscaped(SubSeq(s, 3, Len(s)), c, by)
    ELSE <<s[1]>> \o ReplaceAllEscaped(Tail(s), c, by)

\* Lines 146-151: the text of a matched record.
unescapedText(rawText) ==
    LET quoted == <<"\"">> \o ReplaceAllChar(rawText, "\"", <<"\\", "\"">>) \o <<"\"">>
        r == JSONparse(quoted)
    IN  IF r.ok THEN r.val.v
        ELSE ReplaceAllEscaped(
                 ReplaceAllEscaped(
                     ReplaceAllEscaped(rawText, "\"", <<"\"">>),
                     "'", <<"'">>),
                 "\\", <<"\\">>)

\* { startTime: match[1], endTime: match[2], text: unescapedText }
ObjStartTime == <<"s", "t", "a", "r", "t", "T", "i", "m", "e">>

ObjEndTime == <<"e", "n", "d", "T", "i", "m", "e">>

ObjText == <<"t", "e", "x", "t">>

SegmentObject(m1, m2, text) ==
    [t |-> "obj",
     v |-> << [k |-> ObjStartTime, val |-> JsStr(m1)],
              [k |-> ObjEndTime, val |-> JsStr(m2)],
              [k |-> ObjText, val |-> JsStr(text)] >>]

\* The while loop over segmentRegex.exec (lines 144-158): the leftmost
\* match at or after lastIndex, then on from the end of that match.  A
\* match starts with "{", so the attempts go from brace to brace.
RECURSIVE RegexScan(_, _, _)
RegexScan(s, i, acc) ==
    LET b == IndexOfFrom(s, "{", i)
        m == RegexMatchAt(s, b)
    IN  IF b = 0 THEN acc
        ELSE IF m.ok
             THEN RegexScan(s, m.lastIndex,
                      Append(acc, SegmentObject(m.m1, m.m2, unescapedText(m.rawText))))
        ELSE RegexScan(s, b + 1, acc)

\* parsed.segments && Array.isArray(parsed.segments) on the outcome of a
\* JSON.parse; a throw inside the try block leads to the same branch.
HasSegmentsArray(r) == r.ok /\ GetProp(r.val, NameSegments).t = "arr"

ErrInvalid == "Response structure invalid and could not be repaired."

Returned(value) == [threw |-> FALSE, value |-> value, message |-> ""]

Threw(message) == [threw |-> TRUE, value |-> JsUndefined, message |-> message]

\* Lines 127-138: cut after the last "}" and close the array and the object.
TruncationRepair(trimmed) ==
    LET lastObjectEnd == LastIndexOf(trimmed, "}")
    IN  IF lastObjectEnd # 0
        THEN JSONparse(SubSeq(trimmed, 1, lastObjectEnd) \o <<"]", "}">>)
        ELSE SyntaxError

tryRepairJson(jsonString) ==
    LET trimmed == Trim(jsonString)
        direct == JSONparse(trimmed)
        repaired == TruncationRepair(trimmed)
        segs == RegexScan(trimmed, 1, <<>>)
    IN  IF HasSegmentsArray(direct) THEN Returned(direct.val)
        ELSE IF HasSegmentsArray(repaired) THEN Returned(repaired.val)
        ELSE IF Len(segs) > 0
             THEN Returned([t |-> "obj", v |-> << [k |-> NameSegments,
                               val |-> [t |-> "arr", v |-> segs]] >>])
        ELSE Threw(ErrInvalid)

\* ------------------------------------------------------------------------
\* The older tryRepairJson of the other service file (src/unnamed/part_003,
\* lines 81-137): the direct parse returns whatever it parsed, a blob
\* without "}" is an error of its own, the pattern requires the quotes and
\* the closing brace of a record, and the matched text is kept raw.
\* ------------------------------------------------------------------------
\* [^"]+ followed by a quote, from position p (after the opening quote):
\* the position of that quote, 0 if the run is empty or does not end.
ReQuotedEnd(s, p) ==
    IF p = 0 THEN 0
    ELSE LET e == IndexOfFrom(s, "\"", p) IN IF e > p THEN e ELSE 0

\* One attempt of the pattern of part_003 (line 120) at position i.
RegexMatchAt_part003(s, i) ==
    LET a0 == ReLit(s, ReWs(s, ReLit(s, ReWs(s, ReLit(s, ReWs(s, ReLit(s, i, <<"{">>)),
                  KeyStartTime)), <<":">>)), <<"\"">>)
        a1 == ReQuotedEnd(s, a0)
        b0 == ReLit(s, ReWs(s, ReLit(s, ReWs(s, ReLit(s, ReWs(s, ReLit(s, ReWs(s,
                  IF a1 = 0 THEN 0 ELSE a1 + 1), <<",">>)), KeyEndTime)), <<":">>)), <<"\"">>)
        b1 == ReQuotedEnd(s, b0)
        c0 == ReLit(s, ReWs(s, ReLit(s, ReWs(s, ReLit(s, ReWs(s, ReLit(s, ReWs(s,
                  IF b1 = 0 THEN 0 ELSE b1 + 1), <<",">>)), KeyText)), <<":">>)), <<"\"">>)
        c1 == IF c0 = 0 THEN 0 ELSE ReTextEnd(s, c0, "\"")
        d0 == ReLit(s, ReWs(s, IF c1 = 0 THEN 0 ELSE c1 + 1), <<"}">>)
    IN  IF d0 = 0 THEN [ok |-> FALSE]
        ELSE [ok |-> TRUE, m1 |-> SubSeq(s, a0, a1 - 1), m2 |-> SubSeq(s, b0, b1 - 1),
              rawText |-> SubSeq(s, c0, c1 - 1), lastIndex |-> d0]

RECURSIVE RegexScan_part003(_, _, _)
RegexScan_part003(s, i, acc) ==
    LET b == IndexOfFrom(s, "{", i)
        m == RegexMatchAt_part003(s, b)
    IN  IF b = 0 THEN acc
        ELSE IF m.ok
             THEN RegexScan_part003(s, m.lastIndex,
                      Append(acc, SegmentObject(m.m1, m.m2, m.rawText)))
        ELSE RegexScan_part003(s, b + 1, acc)

tryRepairJson_part003(jsonString) ==
    LET direct == JSONparse(jsonString)
        trimmed == Trim(jsonString)
        repaired == TruncationRepair(trimmed)
        segs == RegexScan_part003(trimmed, 1, <<>>)
    IN  IF direct.ok THEN Returned(direct.val)
        ELSE IF LastIndexOf(trimmed, "}") = 0 THEN Threw("Response too short or malformed to repair.")
        ELSE IF HasSegmentsArray(repaired) THEN Returned(repaired.val)
        ELSE IF repaired.ok THEN Returned(JsUndefined)
        ELSE IF Len(segs) > 0
             THEN Returned([t |-> "obj", v |-> << [k |-> NameSegments,
                               val |-> [t |-> "arr", v |-> segs]] >>])
        ELSE Threw("SyntaxError")

\* ------------------------------------------------------------------------
\* transcribeAudio from the arrival of the response (lines 282-304).
\* ------------------------------------------------------------------------
\* The grave accent U+0060, which a TLA+ string cannot hold, under a name.
GraveAccent == "<U+0060>"

Fence == <<GraveAccent, GraveAccent, GraveAccent>>

FenceJson == Fence \o <<"j", "s", "o", "n">>

StartsWith(s, w) == Len(s) >= Len(w) /\ SubSeq(s, 1, Len(w)) = w

RECURSIVE DropWsLeft(_)
DropWsLeft(s) ==
    IF s # <<>> /\ s[1] \in RegexWs THEN DropWsLeft(Tail(s)) ELSE s

RECURSIVE DropWsRight(_)
DropWsRight(s) ==
    IF s # <<>> /\ s[Len(s)] \in RegexWs
    THEN DropWsRight(SubSeq(s, 1, Len(s) - 1)) ELSE s

\* text.replace(/^<opening>\s*/, '') for a text that starts with opening.
StripOpening(text, opening) ==
    DropWsLeft(SubSeq(text, Len(opening) + 1, Len(text)))

\* text.replace(/\s*<fence>$/, '')
StripClosing(text) ==
    IF Len(text) >= Len(Fence) /\ SubSeq(text, Len(text) - Len(Fence) + 1, Len(text)) = Fence
    THEN DropWsRight(SubSeq(text, 1, Len(text) - Len(Fence))) ELSE text

\* Lines 285-290.
stripFences(response) ==
    LET text == Trim(response)
    IN  IF StartsWith(text, FenceJson) THEN StripClosing(StripOpening(text, FenceJson))
        ELSE IF StartsWith(text, Fence) THEN StripClosing(StripOpening(text, Fence))
        ELSE text

\* String(value).  A number prints as its literal, which is what String
\* gives for the plain decimal literals of this model's blobs.
RECURSIVE JsString(_)
RECURSIVE JsJoin(_, _)
JsString(value) ==
    CASE value.t \in {"str", "num", "lit"} -> value.v
      [] value.t = "undefined" -> StrUndefined
      [] value.t = "obj" ->
           <<"[", "o", "b", "j", "e", "c", "t", " ", "O", "b", "j", "e", "c", "t", "]">>
      [] value.t = "arr" -> JsJoin(value.v, 1)

JsJoin(elems, i) ==
    IF i > Len(elems) THEN <<>>
    ELSE (IF i > 1 THEN <<",">> ELSE <<>>)
         \o (IF elems[i].t = "undefined" \/ (elems[i].t = "lit" /\ elems[i].v = StrNull)
             THEN <<>> ELSE JsString(elems[i]))
         \o JsJoin(elems, i + 1)

ErrEmpty == "Empty response from model"

\* Lines 295-299: one element of parsed.segments turned into a segment.
SegmentOf(s) ==
    [startTime |-> normalizeTimestamp(JsString(GetProp(s, ObjStartTime))),
     endTime |-> normalizeTimestamp(JsString(GetProp(s, ObjEndTime))),
     text |-> JsString(GetProp(s, ObjText))]

\* Lines 293-299: the outcome for the value parsed that tryRepairJson
\* returned or the error it threw.  Reading s.startTime of a null element
\* throws a TypeError.
SegmentsOf(parsed) ==
    IF parsed.threw
    THEN [threw |-> TRUE, message |-> parsed.message, segments |-> <<>>]
    ELSE LET elems == GetProp(parsed.value, NameSegments).v
         IN  IF \E i \in 1..Len(elems) : elems[i].t = "lit" /\ elems[i].v = StrNull
             THEN [threw |-> TRUE, segments |-> <<>>,
                   message |-> "Cannot read properties of null (reading 'startTime')"]
             ELSE [threw |-> FALSE, message |-> "",
                   segments |-> [i \in 1..Len(elems) |-> SegmentOf(elems[i])]]

transcribeAudio_noEmptyCheck(response) ==
    SegmentsOf(tryRepairJson(stripFences(response)))

\* The outcome of transcribeAudio for response.text = response: the
\* segment list it resolves to, or the message of the Error it rejects
\* with (line 303 keeps the message of whatever was thrown).
transcribeAudio(response) ==
    IF response = <<>> THEN [threw |-> TRUE, message |-> ErrEmpty, segments |-> <<>>]
    ELSE SegmentsOf(tryRepairJson(stripFences(response)))

\* ------------------------------------------------------------------------
\* Responses of the generation service.  A well-formed response is the JSON
\* text of {"segments":[r1..rn]} (TRANSCRIPTION_SCHEMA, lines 6-32), each
\* record with its three string fields in schema order; the service's
\* output limit cuts it off after upstream.cut characters.
\* ------------------------------------------------------------------------
MaxRecs == 2

\* The text values of the records: plain, holding a closing brace, and
\* holding a double quote next to a line break.
RepairTexts == { <<"H", "i">>, <<"}">>, <<"\"", "\n">> }

\* The i-th record of a response: times 0:00-0:02, 0:02-0:04, ...
RecordAt(i, text) ==
    [startTime |-> <<"0", ":", "0", DigitChar((2 * (i - 1)) % 10)>>,
     endTime |-> <<"0", ":", "0", DigitChar((2 * i) % 10)>>,
     text |-> text]

Responses ==
    {[i \in 1..Len(texts) |-> RecordAt(i, texts[i])] : texts \in SeqsOf(RepairTexts, 1, MaxRecs)}

\* The JSON string literal of a text (JSON.stringify).
RECURSIVE JsonQuoteBody(_)
JsonQuoteBody(chars) ==
    IF chars = <<>> THEN <<>>
    ELSE (CASE chars[1] = "\"" -> <<"\\", "\"">>
            [] chars[1] = "\\" -> <<"\\", "\\">>
            [] chars[1] = "\n" -> <<"\\", "n">>
            [] chars[1] = "\t" -> <<"\\", "t">>
            [] chars[1] = "\r" -> <<"\\", "r">>
            [] OTHER -> <<chars[1]>>) \o JsonQuoteBody(Tail(chars))

JsonQuote(chars) == <<"\"">> \o JsonQuoteBody(chars) \o <<"\"">>

RecordJson(r) ==
    <<"{">> \o KeyStartTime \o <<":">> \o JsonQuote(r.startTime) \o <<",">>
            \o KeyEndTime \o <<":">> \o JsonQuote(r.endTime) \o <<",">>
            \o KeyText \o <<":">> \o JsonQuote(r.text) \o <<"}">>

RECURSIVE RecordsJson(_, _)
RecordsJson(recs, i) ==
    IF i > Len(recs) THEN <<>>
    ELSE (IF i > 1 THEN <<",">> ELSE <<>>) \o RecordJson(recs[i]) \o RecordsJson(recs, i + 1)

ResponseOpen == <<"{">> \o JsonQuote(NameSegments) \o <<":", "[">>

ResponseJson(recs) == ResponseOpen \o RecordsJson(recs, 1) \o <<"]", "}">>

\* The offset of the closing brace of the i-th record in ResponseJson(recs).
CloseOffset(recs, i) == Len(ResponseOpen) + Len(RecordsJson(SubSeq(recs, 1, i), 1))

\* Well-formed responses cut off at every offset (the full text included).
CutResponses ==
    UNION {{[kind |-> "cut", records |-> recs, text |-> ResponseJson(recs), cut |-> c]
               : c \in 0..Len(ResponseJson(recs))} : recs \in Responses}

OneRecord == <<RecordAt(1, <<"H", "i">>)>>

\* {"startTime":"0:00","endTime":"0:02","text":'it\'s'} : a record whose
\* text is single-quoted, with an escaped apostrophe.
SingleQuotedRecord ==
    <<"{">> \o KeyStartTime \o <<":">> \o JsonQuote(OneRecord[1].startTime) \o <<",">>
            \o KeyEndTime \o <<":">> \o JsonQuote(OneRecord[1].endTime) \o <<",">>
            \o KeyText \o <<":">> \o <<"'", "i", "t", "\\", "'", "s", "'", "}">>

\* Other responses: no records, not an object with a segments array,
\* prose around the JSON text, code fences, a null element, a record
\* without endTime and text, numeric times.
OtherTexts ==
    { ResponseOpen \o <<"]", "}">>,
      <<"[", "]">>, <<"{", "}">>, StrNull, <<" ">>,
      <<"S", "o", "r", "r", "y">>,
      <<"O", "K", ":", " ">> \o ResponseJson(OneRecord),
      ResponseJson(OneRecord) \o <<" ", "o", "k">>,
      FenceJson \o <<"\n">> \o ResponseJson(OneRecord) \o <<"\n">> \o Fence,
      Fence \o <<"\n">> \o ResponseJson(OneRecord) \o <<"\n">> \o Fence,
      ResponseOpen \o StrNull \o <<"]", "}">>,
      ResponseOpen \o <<"{">> \o KeyStartTime \o <<":">> \o JsonQuote(OneRecord[1].startTime)
                   \o <<"}", "]", "}">>,
      ResponseOpen \o <<"{">> \o KeyStartTime \o <<":", "0", ".", "5", ",">>
                   \o KeyEndTime \o <<":", "2", ",">>
                   \o KeyText \o <<":">> \o JsonQuote(<<"H", "i">>) \o <<"}", "]", "}">> }

\* A record whose times use a decimal comma, the notation line 41 of the
\* normalizer provides for, alone in a response that is cut off anywhere.
CommaRecord ==
    [startTime |-> <<"0", ":", "0", "0", ",", "5">>,
     endTime |-> <<"0", ":", "0", "2", ",", "5">>,
     text |-> <<"H", "i">>]

CutCommaResponses ==
    {[kind |-> "cut", records |-> <<CommaRecord>>, text |-> ResponseJson(<<CommaRecord>>),
      cut |-> c] : c \in 0..Len(ResponseJson(<<CommaRecord>>))}

\* Language tags after the opening fence: none, json, and another one.
FenceTags == {<<>>, <<"j", "s", "o", "n">>, <<"j", "s">>}

\* A well-formed response (no record, one or more records, decimal-comma
\* times) between an opening fence with a tag and a closing fence.
Fenced(tag, body) == Fence \o tag \o <<"\n">> \o body \o <<"\n">> \o Fence

FencedResponses ==
    {[kind |-> "fenced", records |-> recs[1], text |-> Fenced(recs[2], ResponseJson(recs[1])),
      cut |-> Len(Fenced(recs[2], ResponseJson(recs[1])))]
        : recs \in (Responses \cup {<<>>, <<CommaRecord>>}) \X FenceTags}

\* Every response of the model; the single-quoted record alone in a
\* response denotes the text it's.
Upstreams ==
    CutResponses \cup CutCommaResponses \cup FencedResponses
    \cup {[kind |-> "other", records |-> <<>>, text |-> t, cut |-> Len(t)] : t \in OtherTexts}
    \cup {[kind |-> "single-quoted", records |-> <<RecordAt(1, <<"i", "t", "'", "s">>)>>,
           text |-> ResponseOpen \o SingleQuotedRecord \o <<"]", "}">>,
           cut |-> Len(ResponseOpen \o SingleQuotedRecord) + 2]}

\* ------------------------------------------------------------------------
\* Specification of the repairer: a response arrives; tryRepairJson is
\* applied to it, or transcribeAudio runs its tail on it.
\* ------------------------------------------------------------------------
InitRepair ==
    /\ pc = "response"
    /\ results = Unused /\ runs = Unused /\ translations = Unused
    /\ upstream \in Upstreams
    /\ blob = SubSeq(upstream.text, 1, upstream.cut)
    /\ repairOut = Unused
    /\ ts = Unused /\ normOut = Unused /\ segments = Unused
    /\ currentTime = 0 /\ activeIdx = -1
    /\ duration = Unused /\ exportType = Unused /\ content = Unused

CallTryRepairJson ==
    /\ pc = "response"
    /\ repairOut' = tryRepairJson(blob)
    /\ pc' = "repaired"
    /\ UNCHANGED <<results, runs, translations, ts, normOut, upstream, blob, segments, currentTime, activeIdx,
                   duration, exportType, content>>

CallTranscribeAudio ==
    /\ pc = "response"
    /\ repairOut' = transcribeAudio(blob)
    /\ pc' = "transcribed"
    /\ UNCHANGED <<results, runs, translations, ts, normOut, upstream, blob, segments, currentTime, activeIdx,
                   duration, exportType, content>>

\* tryRepairJson of part_003 applied to the blob.
CallTryRepairJson_part003 ==
    /\ pc = "response"
    /\ repairOut' = tryRepairJson_part003(blob)
    /\ pc' = "repaired_part003"
    /\ UNCHANGED <<results, runs, translations, ts, normOut, upstream, blob, segments, currentTime, activeIdx,
                   duration, exportType, content>>

NextRepair == CallTryRepairJson \/ CallTranscribeAudio \/ CallTryRepairJson_part003

SpecRepair == InitRepair /\ [][NextRepair]_vars

\* ------------------------------------------------------------------------
\* Claims about the repairer (C3, C4, C5)
\* ------------------------------------------------------------------------
\* The records of a returned value as the caller reads them (s.startTime,
\* s.endTime, s.text as strings).
ReturnedRecords(value) ==
    LET elems == GetProp(value, NameSegments).v
    IN  [i \in 1..Len(elems) |->
            [startTime |-> JsString(GetProp(elems[i], ObjStartTime)),
             endTime |-> JsString(GetProp(elems[i], ObjEndTime)),
             text |-> JsString(GetProp(elems[i], ObjText))]]

\* The records of a response whose closing brace lies before the cut.
ClosedRecords(recs, cut) ==
    SubSeq(recs, 1, Cardinality({i \in 1..Len(recs) : CloseOffset(recs, i) <= cut}))

\* C3: for a well-formed response {"segments":[r1..rn]} cut off anywhere
\* after the closing brace of r1, tryRepairJson returns exactly the records
\* whose closing brace lies before the cut, in order, and no record that is
\* only partly in the blob.
C3_TruncationExactRecords ==
    (/\ pc = "repaired" /\ upstream.kind = "cut"
     /\ upstream.cut >= CloseOffset(upstream.records, 1)) =>
        /\ ~repairOut.threw
        /\ ReturnedRecords(repairOut.value) = ClosedRecords(upstream.records, upstream.cut)

\* C4: for a non-empty blob tryRepairJson either returns at least one
\* record or fails with the 'structure invalid' error, and transcribeAudio
\* never resolves to an empty segment list.
C4_ZeroRecordsFails ==
    /\ (pc = "repaired" /\ blob # <<>>) =>
           IF repairOut.threw THEN repairOut.message = ErrInvalid
           ELSE Len(ReturnedRecords(repairOut.value)) > 0
    /\ (pc = "transcribed" /\ blob # <<>> /\ ~repairOut.threw) =>
           Len(repairOut.segments) > 0

\* C5: every text value the cascade returns is the text its record denotes,
\* each escape of the raw text replaced by its character, whichever stage
\* produced the record and whether the text was double- or single-quoted.
C5_NoLeftoverEscapes ==
    /\ (pc = "repaired" /\ upstream.kind \in {"cut", "single-quoted"} /\ ~repairOut.threw) =>
           LET recs == ReturnedRecords(repairOut.value)
           IN  \A i \in 1..Len(recs) :
                   i <= Len(upstream.records) /\ recs[i].text = upstream.records[i].text
    /\ (pc = "transcribed" /\ upstream.kind \in {"cut", "single-quoted"} /\ ~repairOut.threw) =>
           \A i \in 1..Len(repairOut.segments) :
               i <= Len(upstream.records)
               /\ repairOut.segments[i].text = upstream.records[i].text

\* ------------------------------------------------------------------------
\* Claims about the repairer (C14 to C16, C18)
\* ------------------------------------------------------------------------
\* A record-shaped fragment, by the JSON grammar: "{", then "startTime" and
\* "endTime" each with a string or a number as value, then "text" with a
\* closed quoted value, separated by commas and optional white space.
\* Each piece gives the position after it, 0 when it is not there.
FragKey(s, p, key) == ReWs(s, ReLit(s, ReWs(s, ReLit(s, ReWs(s, p), key)), <<":">>))

FragComma(s, p) == ReLit(s, ReWs(s, p), <<",">>)

FragValueEnd(s, p) ==
    IF p = 0 \/ p > Len(s) THEN 0
    ELSE IF s[p] = "\"" THEN JsonStringBody(s, p + 1, <<>>).pos
    ELSE JsonNumber(s, p).pos

FragTextEnd(s, p) ==
    IF p = 0 \/ p > Len(s) THEN 0
    ELSE IF s[p] = "\"" THEN JsonStringBody(s, p + 1, <<>>).pos
    ELSE IF s[p] = "'" /\ ReTextEnd(s, p + 1, "'") # 0 THEN ReTextEnd(s, p + 1, "'") + 1
    ELSE 0

FragmentAt(s, i) ==
    FragTextEnd(s,
        FragKey(s, FragComma(s, FragValueEnd(s,
            FragKey(s, FragComma(s, FragValueEnd(s,
                FragKey(s, ReLit(s, i, <<"{">>), KeyStartTime))),
                KeyEndTime))),
            KeyText)) # 0

HasRecordFragment(s) == \E i \in 1..Len(s) : FragmentAt(s, i)

\* C14: for every blob that holds at least one complete record-shaped
\* fragment (startTime, endTime and a closed quoted text, in that order),
\* truncated or malformed as it may be, tryRepairJson returns a non-empty
\* record list and throws nothing.
C14_FragmentIsRecovered ==
    (pc = "repaired" /\ HasRecordFragment(blob)) =>
        /\ ~repairOut.threw
        /\ Len(ReturnedRecords(repairOut.value)) > 0

\* C15: an empty response makes transcribeAudio fail with "Empty response
\* from model" without running the repair cascade (which on the empty
\* string would fail with the unrecoverable-structure error), and no
\* non-empty blob fails with that message: the two failures are distinct.
C15_EmptyFailsDistinctly ==
    /\ (pc = "transcribed" /\ blob = <<>>) =>
           repairOut.threw /\ repairOut.message = ErrEmpty /\ repairOut.message # ErrInvalid
    /\ (pc = "transcribed" /\ blob # <<>> /\ repairOut.threw) => repairOut.message # ErrEmpty
    /\ (pc = "repaired" /\ blob = <<>>) => repairOut.threw /\ repairOut.message = ErrInvalid

C15_Witness ==
    /\ pc = "transcribed"
    /\ blob = <<>>
    /\ repairOut.threw
    /\ repairOut.message = ErrEmpty

\* The number of record-shaped fragments of a blob.
FragmentCount(s) == Cardinality({i \in 1..Len(s) : FragmentAt(s, i)})

\* A parsed record that has its three fields.
HasThreeFields(rec) ==
    /\ GetProp(rec, ObjStartTime).t # "undefined"
    /\ GetProp(rec, ObjEndTime).t # "undefined"
    /\ GetProp(rec, ObjText).t # "undefined"

\* C16: every record the cascade hands on carries startTime, endTime and
\* text, and every segment transcribeAudio returns stems from a record of
\* the blob that has the three fields: a record that lacks one is never
\* turned into a segment.
C16_RecordsCarryFields ==
    /\ (pc = "repaired" /\ ~repairOut.threw) =>
           LET elems == GetProp(repairOut.value, NameSegments).v
           IN  /\ \A i \in 1..Len(elems) : HasThreeFields(elems[i])
               /\ Len(elems) <= FragmentCount(blob)
    /\ (pc = "transcribed" /\ ~repairOut.threw) =>
           Len(repairOut.segments) <= FragmentCount(blob)

\* C18: for a response that the direct parse accepts, the same response
\* between an opening fence (with no language tag or with any tag) and a
\* closing fence gives the same outcome of transcribeAudio: the same
\* segment list.
C18_FenceIsTransparent ==
    (/\ pc = "transcribed" /\ upstream.kind = "fenced"
     /\ HasSegmentsArray(JSONparse(ResponseJson(upstream.records)))) =>
        repairOut = transcribeAudio(ResponseJson(upstream.records))

\* ------------------------------------------------------------------------
\* FormatExporter: the exporters of the other exporter file
\* (src/unnamed/part_004): TXT, SRT, LRC, JSON and TTML.  The fixed pieces
\* of a template string that no claim looks into are kept as one element
\* each; times, texts and line breaks are character by character.
\* ------------------------------------------------------------------------
\* parseTimestampToSeconds of part_004 (lines 6-19) is, statement by
\* statement, the parseTimestamp of App; the result is in milliseconds.
parseTimestampToSeconds_part004(t) == parseTimestamp(t)

\* The function on every stored time, computed once.
SecondsOf_part004 ==
    [x \in {Stamp(ms) : ms \in StoredTimes} |-> parseTimestampToSeconds_part004(x)]

\* formatSecondsToSRT (part_004 lines 21-29); roundedMs is the argument in
\* whole milliseconds.
formatSecondsToSRT(roundedMs) ==
    PadStart(NumToStr(roundedMs \div 3600000), 2, "0") \o <<":">>
      \o PadStart(NumToStr((roundedMs % 3600000) \div 60000), 2, "0") \o <<":">>
      \o PadStart(NumToStr((roundedMs % 60000) \div 1000), 2, "0") \o <<",">>
      \o PadStart(NumToStr(roundedMs % 1000), 3, "0")

\* Array.prototype.join(sep)
RECURSIVE JoinBy(_, _)
JoinBy(items, sep) ==
    IF items = <<>> THEN <<>>
    ELSE IF Len(items) = 1 THEN items[1]
    ELSE items[1] \o sep \o JoinBy(Tail(items), sep)

\* exportAsTXT of utils/exporters.ts as its second half defines it (lines
\* 142-147): each paragraph is the template [startTime] text.
exportAsTXT_exporters(segs, type) ==
    JoinBy([i \in 1..Len(segs) |->
               <<"[">> \o segs[i].startTime \o <<"]", " ">> \o SelectedText(segs[i], type)],
           <<"\n", "\n">>)

\* exportAsTXT (part_004 lines 65-69)
exportAsTXT(segs, type) ==
    JoinBy([i \in 1..Len(segs) |-> SelectedText(segs[i], type)], <<"\n", "\n">>)

\* The template string of line 76 for segment i.
SrtBlock(s, i, type) ==
    NumToStr(i) \o <<"\n">>
      \o formatSecondsToSRT(SecondsOf_part004[s.startTime])
      \o <<" ", "-", "-", ">", " ">>
      \o formatSecondsToSRT(SecondsOf_part004[s.endTime])
      \o <<"\n">> \o SelectedText(s, type) \o <<"\n">>

\* exportAsSRT (part_004 lines 71-78)
exportAsSRT(segs, type) ==
    JoinBy([i \in 1..Len(segs) |-> SrtBlock(segs[i], i, type)], <<"\n">>)

\* One object of JSON.stringify(data, null, 2): its three members in the
\* order of the object literal of lines 128-132.
JsonObjectText(s, type) ==
    <<"  {", "\n", "    \"startTime\": ">> \o JsonQuote(s.startTime) \o <<",", "\n">>
      \o <<"    \"endTime\": ">> \o JsonQuote(s.endTime) \o <<",", "\n">>
      \o <<"    \"text\": ">> \o JsonQuote(SelectedText(s, type)) \o <<"\n", "  }">>

\* exportAsJSON (part_004 lines 127-134); an empty array prints as [].
exportAsJSON(segs, type) ==
    IF segs = <<>> THEN <<"[", "]">>
    ELSE <<"[", "\n">>
           \o JoinBy([i \in 1..Len(segs) |-> JsonObjectText(segs[i], type)], <<",", "\n">>)
           \o <<"\n", "]">>

\* The callback of lines 42-49 for one matched character.
XmlEntity(c) ==
    CASE c = "<" -> <<"&", "l", "t", ";">>
      [] c = ">" -> <<"&", "g", "t", ";">>
      [] c = "&" -> <<"&", "a", "m", "p", ";">>
      [] c = "'" -> <<"&", "a", "p", "o", "s", ";">>
      [] c = "\"" -> <<"&", "q", "u", "o", "t", ";">>
      [] OTHER -> <<c>>

\* unsafe.replace(/[<>&'"]/g, callback): one pass over the string.
RECURSIVE ReplaceSpecials(_)
ReplaceSpecials(unsafe) ==
    IF unsafe = <<>> THEN <<>>
    ELSE XmlEntity(unsafe[1]) \o ReplaceSpecials(Tail(unsafe))

escapeXml_twice(unsafe) == ReplaceSpecials(ReplaceSpecials(unsafe))

\* escapeXml (part_004 lines 40-51)
escapeXml(unsafe) == ReplaceSpecials(unsafe)

\* Lines 102-107: the begin or end attribute of a caption.
TtmlTime(t) ==
    IF Len(IF Includes(t, ".") THEN t ELSE t \o <<".", "0", "0", "0">>) <= 9
    THEN <<"0", "0", ":">> \o (IF Includes(t, ".") THEN t ELSE t \o <<".", "0", "0", "0">>)
    ELSE (IF Includes(t, ".") THEN t ELSE t \o <<".", "0", "0", "0">>)

\* The template string of line 109.
TtmlCaption(s, type) ==
    <<"      <p begin=\"">> \o TtmlTime(s.startTime) \o <<"\" end=\"">>
      \o TtmlTime(s.endTime) \o <<"\">">> \o escapeXml(SelectedText(s, type)) \o <<"</p>">>

\* The lines of the template of lines 112-124 before and after the captions.
TtmlHead ==
    << "<?xml version=\"1.0\" encoding=\"UTF-8\"?>", "\n",
       "<tt xmlns=\"http://www.w3.org/ns/ttml\" xmlns:tts=\"http://www.w3.org/ns/ttml#styling\" xml:lang=\"en\">", "\n",
       "  <head>", "\n",
       "    <styling>", "\n",
       "      <style xml:id=\"defaultCaption\" tts:fontSize=\"10px\" tts:fontFamily=\"SansSerif\" tts:fontWeight=\"normal\" tts:fontStyle=\"normal\" tts:textDecoration=\"none\" tts:color=\"white\" tts:backgroundColor=\"black\" tts:textAlign=\"center\" />", "\n",
       "    </styling>", "\n",
       "  </head>", "\n",
       "  <body>", "\n",
       "    <div style=\"defaultCaption\">", "\n" >>

TtmlFoot == << "\n", "    </div>", "\n", "  </body>", "\n", "</tt>" >>

\* exportAsTTML (part_004 lines 98-125)
exportAsTTML(segs, type) ==
    TtmlHead \o JoinBy([i \in 1..Len(segs) |-> TtmlCaption(segs[i], type)], <<"\n">>)
      \o TtmlFoot

\* ------------------------------------------------------------------------
\* Specification of the exporters: a lane holds segments and a caller
\* asks one of the five exporters for the original or the translated text.
\* ------------------------------------------------------------------------
ExportDone(at, type, out) ==
    /\ pc = "export_ready"
    /\ pc' = at
    /\ exportType' = type
    /\ content' = out
    /\ UNCHANGED <<results, runs, translations, ts, normOut, upstream, blob, repairOut, segments, currentTime, activeIdx,
                   duration>>

ExportTXT ==
    \E type \in {"original", "translated"} :
        ExportDone("txt_done", type, exportAsTXT(segments, type))

ExportTXT_exporters ==
    \E type \in {"original", "translated"} :
        ExportDone("txt_done_exporters", type, exportAsTXT_exporters(segments, type))

ExportSRT ==
    \E type \in {"original", "translated"} :
        ExportDone("srt_done", type, exportAsSRT(segments, type))

ExportLRC ==
    \E type \in {"original", "translated"} :
        ExportDone("lrc_done", type, exportAsLRC_part004(segments, type, duration))

ExportJSON ==
    \E type \in {"original", "translated"} :
        ExportDone("json_done", type, exportAsJSON(segments, type))

ExportTTML ==
    \E type \in {"original", "translated"} :
        ExportDone("ttml_done", type, exportAsTTML(segments, type))

NextExport ==
    \/ ExportTXT \/ ExportTXT_exporters
    \/ ExportSRT \/ ExportLRC \/ ExportJSON \/ ExportTTML

SpecExport == InitLrc /\ [][NextExport]_vars

\* ------------------------------------------------------------------------
\* Specification of the caption (TTML) export alone: the exporter is given
\* segments whose times are canonical, lack the hours or lack the
\* milliseconds, and texts that hold the XML special characters.
\* ------------------------------------------------------------------------
TtmlStamps ==
    { <<"0", "1", ":", "0", "2", ":", "0", "3", ".", "0", "0", "4">>,
      <<"0", "1", ":", "0", "5", ".", "2", "5", "0">>,
      <<"1", ":", "0", "5", ".", "2", "5", "0">>,
      <<"0", "1", ":", "0", "5">>,
      <<"0", "0", ":", "0", "1", ":", "0", "5">> }

TtmlTexts ==
    { <<"a">>,
      <<"<", "&", "l", "t", ";", ">", "'", "\"">>,
      <<"a", "\n", "&">> }

TtmlSegments ==
    [startTime : TtmlStamps, endTime : TtmlStamps, text : TtmlTexts,
     translatedText : {Undefined, <<"&", "&">>}]

InitTtml ==
    /\ pc = "export_ready"
    /\ results = Unused /\ runs = Unused /\ translations = Unused
    /\ segments \in SeqsOf(TtmlSegments, 0, MaxLrcSegs)
    /\ duration = [kind |-> "undefined", ms |-> 0]
    /\ exportType = Unused /\ content = Unused
    /\ ts = Unused /\ normOut = Unused /\ upstream = Unused /\ blob = Unused
    /\ repairOut = Unused
    /\ currentTime = 0 /\ activeIdx = -1

SpecTtml == InitTtml /\ [][ExportTTML]_vars

\* ------------------------------------------------------------------------
\* Claims about the exporters (checked under SpecExport)
\* ------------------------------------------------------------------------
\* A time of the form HH:MM:SS,mmm with minutes and seconds in 00-59.
IsSrtTime(t) ==
    /\ Len(t) = 12
    /\ t[3] = ":" /\ t[6] = ":" /\ t[9] = ","
    /\ \A i \in {1, 2, 4, 5, 7, 8, 10, 11, 12} : IsDigit(t[i])
    /\ DigitVal(t[4]) <= 5 /\ DigitVal(t[7]) <= 5

\* The milliseconds such a time denotes.
SrtTimeValue(t) ==
    DigitsValue(SubSeq(t, 1, 2)) * 3600000 + DigitsValue(SubSeq(t, 4, 5)) * 60000
      + DigitsValue(SubSeq(t, 7, 8)) * 1000 + DigitsValue(SubSeq(t, 10, 12))

\* The length of a block: index line, time line (12 + 5 + 12 characters),
\* text, each with its line break, and the line break of the blank line.
SrtBlockLen(idx, text) == Len(idx) + 1 + 29 + 1 + Len(text) + 1 + 1

\* The block of segment s with index line idx and the given text stands at
\* position p of c.
SrtBlockAt(c, p, idx, s, text) ==
    /\ p + SrtBlockLen(idx, text) - 1 <= Len(c)
    /\ SubSeq(c, p, p + Len(idx) - 1) = idx
    /\ c[p + Len(idx)] = "\n"
    /\ IsSrtTime(SubSeq(c, p + Len(idx) + 1, p + Len(idx) + 12))
    /\ SrtTimeValue(SubSeq(c, p + Len(idx) + 1, p + Len(idx) + 12)) = DenotedTime(s.startTime)
    /\ SubSeq(c, p + Len(idx) + 13, p + Len(idx) + 17) = <<" ", "-", "-", ">", " ">>
    /\ IsSrtTime(SubSeq(c, p + Len(idx) + 18, p + Len(idx) + 29))
    /\ SrtTimeValue(SubSeq(c, p + Len(idx) + 18, p + Len(idx) + 29)) = DenotedTime(s.endTime)
    /\ c[p + Len(idx) + 30] = "\n"
    /\ SubSeq(c, p + Len(idx) + 31, p + Len(idx) + 30 + Len(text)) = text
    /\ c[p + Len(idx) + 31 + Len(text)] = "\n"
    /\ c[p + Len(idx) + 32 + Len(text)] = "\n"

\* From position p on, c consists of the blocks of the segments i, i+1, ...
RECURSIVE SrtBlocksFrom(_, _, _)
SrtBlocksFrom(c, p, i) ==
    IF i > Len(segments) THEN p = Len(c) + 1
    ELSE /\ SrtBlockAt(c, p, NumToStr(i), segments[i], SelectedText(segments[i], exportType))
         /\ SrtBlocksFrom(c, p + SrtBlockLen(NumToStr(i), SelectedText(segments[i], exportType)),
                          i + 1)

\* C17: the output of exportAsSRT is, for each segment in list order, a
\* block of the 1-based index line, the line 'start --> end' with both
\* times as HH:MM:SS,mmm (minutes and seconds 00-59, three millisecond
\* digits), the selected text and then a blank line, the last block
\* included.
C17_SrtBlocks == pc = "srt_done" => SrtBlocksFrom(content, 1, 1)

\* The text a segment contributes to a translated export: its translation,
\* the empty string when it has none.
TranslatedOrEmpty(s) == IF s.translatedText = Undefined THEN <<>> ELSE s.translatedText

\* What follows the first occurrence of mark in a line.
After(line, mark) == SubSeq(line, IndexOfFrom(line, mark, 1) + 1, Len(line))

\* The entry of segment i in the lines of each format's output carries the
\* text: every second line of TXT, the third line of the i-th SRT block,
\* the i-th LRC line after its tag, the text member of the i-th JSON
\* object, the i-th caption of TTML (after the nine lines of the head).
EntryCarries(lines, i, text) ==
    CASE pc = "txt_done" -> lines[2 * i - 1] = text
      [] pc = "srt_done" -> lines[4 * i - 3] = NumToStr(i) /\ lines[4 * i - 1] = text
      [] pc = "lrc_done" -> lines[i][1] = "[" /\ After(lines[i], "]") = text
      [] pc = "json_done" ->
           lines[5 * i] = <<"    \"text\": ", "\"">> \o text \o <<"\"">>
      [] pc = "ttml_done" -> After(lines[9 + i], "\">") = text \o <<"</p>">>

\* The number of lines of an output of n entries, n > 0.
LineCount(n) ==
    CASE pc = "txt_done" -> 2 * n - 1
      [] pc = "srt_done" -> 4 * n
      [] pc = "lrc_done" -> n
      [] pc = "json_done" -> 5 * n + 2
      [] pc = "ttml_done" -> 9 + n + 3

\* C20: with the translated variant every exporter (TXT, SRT, LRC, JSON,
\* TTML) emits one entry per segment, in order, and the entry of a segment
\* without translatedText carries the empty string; no exporter fails or
\* skips a segment because the translation is missing.
C20_MissingTranslationIsEmpty ==
    (/\ pc \in {"txt_done", "srt_done", "lrc_done", "json_done", "ttml_done"}
     /\ exportType = "translated" /\ segments # <<>>) =>
        /\ Len(Split(content, "\n")) = LineCount(Len(segments))
        /\ \A i \in 1..Len(segments) :
               EntryCarries(Split(content, "\n"), i, TranslatedOrEmpty(segments[i]))

C20_Witness ==
    /\ pc = "ttml_done"
    /\ exportType = "translated"
    /\ Len(segments) = 2
    /\ segments[1].translatedText = Undefined
    /\ segments[2].translatedText = <<"c">>
    /\ After(Split(content, "\n")[10], "\">") = <<"</p>">>
    /\ After(Split(content, "\n")[11], "\">") = <<"c", "</p>">>

\* c is the texts of segs, in order, with one blank line between two of them.
RECURSIVE TextsFrom(_, _, _)
TextsFrom(c, segs, type) ==
    IF segs = <<>> THEN c = <<>>
    ELSE IF Len(segs) = 1 THEN c = SelectedText(segs[1], type)
    ELSE /\ StartsWith(c, SelectedText(segs[1], type) \o <<"\n", "\n">>)
         /\ TextsFrom(SubSeq(c, Len(SelectedText(segs[1], type)) + 3, Len(c)),
                      Tail(segs), type)

\* w stands somewhere in c.
Occurs(c, w) == \E p \in 1..(Len(c) - Len(w) + 1) : SubSeq(c, p, p + Len(w) - 1) = w

\* C21: exportAsTXT returns exactly the selected text of each segment, in
\* list order, joined by one blank line, and no start or end time of a
\* segment stands anywhere in the output; for the exportAsTXT of part_004
\* and for the one utils/exporters.ts defines last.
C21_TxtIsTextsOnly ==
    pc \in {"txt_done", "txt_done_exporters"} =>
        /\ TextsFrom(content, segments, exportType)
        /\ \A i \in 1..Len(segments) :
               /\ ~Occurs(content, segments[i].startTime)
               /\ ~Occurs(content, segments[i].endTime)

\* The same statement for the exportAsTXT of part_004 alone; it holds.
TxtIsTextsOnly_part004 ==
    pc = "txt_done" =>
        /\ TextsFrom(content, segments, exportType)
        /\ \A i \in 1..Len(segments) :
               /\ ~Occurs(content, segments[i].startTime)
               /\ ~Occurs(content, segments[i].endTime)

\* The shape MM:SS.mmm.
IsTwoComponentShape(t) ==
    /\ Len(t) = 9
    /\ t[3] = ":" /\ t[6] = "."
    /\ \A i \in {1, 2, 4, 5, 7, 8, 9} : IsDigit(t[i])

XmlSpecials == {"<", ">", "&", "'", "\""}

XmlEntities == {XmlEntity(c) : c \in XmlSpecials}

\* e is text with every special character replaced by its entity, once.
RECURSIVE EscapesTo(_, _)
EscapesTo(text, e) ==
    IF text = <<>> THEN e = <<>>
    ELSE IF text[1] \in XmlSpecials
    THEN /\ StartsWith(e, XmlEntity(text[1]))
         /\ EscapesTo(Tail(text), SubSeq(e, Len(XmlEntity(text[1])) + 1, Len(e)))
    ELSE e # <<>> /\ e[1] = text[1] /\ EscapesTo(Tail(text), Tail(e))

\* No raw special character stands in e: every & opens an entity.
NoRawSpecial(e) ==
    \A k \in 1..Len(e) :
        /\ e[k] \notin {"<", ">", "'", "\""}
        /\ e[k] = "&" =>
               \E ent \in XmlEntities :
                   k + Len(ent) - 1 <= Len(e) /\ SubSeq(e, k, k + Len(ent) - 1) = ent

\* The attribute value the claim gives a stored time: the time itself when
\* canonical, with a leading 00: when it is MM:SS.mmm.
ClaimedAttribute(t) == IF IsTwoComponentShape(t) THEN <<"0", "0", ":">> \o t ELSE t

HasClaimedShape(t) == IsCanonicalShape(t) \/ IsTwoComponentShape(t)

\* The caption of segment s stands in c from position p up to q: the
\* opening with begin and end, the escaped text, the closing tag at q.
CaptionAt(c, p, q, s, type) ==
    /\ p + 4 < q /\ q <= Len(c)
    /\ c[p] = "      <p begin=\""
    /\ IndexOfFrom(c, "\" end=\"", p) # 0
    /\ IndexOfFrom(c, "\">", p) # 0
    /\ IndexOfFrom(c, "\" end=\"", p) < IndexOfFrom(c, "\">", p)
    /\ IndexOfFrom(c, "\">", p) < q
    /\ HasClaimedShape(s.startTime) =>
           /\ SubSeq(c, p + 1, IndexOfFrom(c, "\" end=\"", p) - 1)
                = ClaimedAttribute(s.startTime)
           /\ IsCanonicalShape(SubSeq(c, p + 1, IndexOfFrom(c, "\" end=\"", p) - 1))
    /\ HasClaimedShape(s.endTime) =>
           /\ SubSeq(c, IndexOfFrom(c, "\" end=\"", p) + 1, IndexOfFrom(c, "\">", p) - 1)
                = ClaimedAttribute(s.endTime)
           /\ IsCanonicalShape(SubSeq(c, IndexOfFrom(c, "\" end=\"", p) + 1,
                                      IndexOfFrom(c, "\">", p) - 1))
    /\ EscapesTo(SelectedText(s, type), SubSeq(c, IndexOfFrom(c, "\">", p) + 1, q - 1))
    /\ NoRawSpecial(SubSeq(c, IndexOfFrom(c, "\">", p) + 1, q - 1))

\* From position p on, c holds the captions of segs in order, one line
\* break between two of them, and after the last one position `last`.
RECURSIVE CaptionsFrom(_, _, _, _, _)
CaptionsFrom(c, p, segs, type, last) ==
    IF segs = <<>> THEN p = last
    ELSE /\ p <= Len(c)
         /\ IndexOfFrom(c, "</p>", p) # 0
         /\ CaptionAt(c, p, IndexOfFrom(c, "</p>", p), segs[1], type)
         /\ IF Len(segs) = 1 THEN IndexOfFrom(c, "</p>", p) + 1 = last
            ELSE /\ IndexOfFrom(c, "</p>", p) + 1 <= Len(c)
                 /\ c[IndexOfFrom(c, "</p>", p) + 1] = "\n"
                 /\ CaptionsFrom(c, IndexOfFrom(c, "</p>", p) + 2, Tail(segs), type, last)

CaptionCount(c) == Cardinality({k \in 1..Len(c) : c[k] = "</p>"})

\* C22: exportAsTTML emits exactly one caption element per segment, in list
\* order; the begin and end of a caption are HH:MM:SS.mmm (the stored time,
\* with a leading 00: when the stored time is MM:SS.mmm); the text of the
\* caption is the selected text with each of < > & ' " replaced by its
\* entity exactly once, so that no raw special character remains.
C22_TtmlCaptions ==
    pc = "ttml_done" =>
        /\ CaptionCount(content) = Len(segments)
        /\ Len(content) >= Len(TtmlHead) + Len(TtmlFoot)
        /\ SubSeq(content, 1, Len(TtmlHead)) = TtmlHead
        /\ SubSeq(content, Len(content) - Len(TtmlFoot) + 1, Len(content)) = TtmlFoot
        /\ CaptionsFrom(content, Len(TtmlHead) + 1, segments, exportType,
                        Len(content) - Len(TtmlFoot) + 1)

\* Two captions: a time without hours next to a canonical one, and a text
\* with all five special characters and an entity of its own.
C22_Witness ==
    /\ pc = "ttml_done"
    /\ exportType = "original"
    /\ Len(segments) = 2
    /\ IsTwoComponentShape(segments[1].startTime)
    /\ IsCanonicalShape(segments[1].endTime)
    /\ segments[1].text = <<"<", "&", "l", "t", ";", ">", "'", "\"">>
    /\ Occurs(content, <<"\">">> \o <<"&", "l", "t", ";", "&", "a", "m", "p", ";", "l", "t", ";">>)
    /\ Occurs(content, <<"      <p begin=\"", "0", "0", ":", "0", "1", ":", "0", "5", ".", "2", "5", "0">>)

\* ------------------------------------------------------------------------
\* The two transcription lanes of App (src/unnamed/part_001 lines 304-345):
\* startTranscription starts runTranscription for both sides, each awaits
\* its own transcribeAudio and stores the outcome with a functional update
\* of results; stopTranscription aborts one side's request.
\* ------------------------------------------------------------------------
Sides == {"left", "right"}

Other(side) == IF side = "left" THEN "right" ELSE "left"

\* error?: string; the absent error under a name of its own.
NoError == "<undefined>"

Canceled == "Canceled by user"

\* What a transcribeAudio can resolve to, and the messages it rejects with.
\* transcribeAudio returns every record with its times normalized
\* (part_002 lines 295-299).
LaneSegment(text) ==
    [startTime |-> normalizeTimestamp(<<"0">>),
     endTime |-> normalizeTimestamp(<<"0", ".", "0", "2", "5">>), text |-> text]

TranscribedLists == {<<>>, <<LaneSegment(<<"a">>)>>, <<LaneSegment(<<"b">>), LaneSegment(<<"a">>)>>}

\* transcribeAudio's message for an error that has none (part_002 line 303)
ErrFailed == "Transcription failed"

FailureMessages == {ErrEmpty, ErrInvalid, ErrFailed}

\* The models a lane starts with (part_001 lines 93-94).
ModelNames == {"gemini-2.5-flash", "gemini-3-flash-preview"}

NoOutcome == [kind |-> "none", segments |-> <<>>, message |-> ""]

\* The variables of the other components.
ComponentVars ==
    <<ts, normOut, upstream, blob, repairOut, segments, currentTime, activeIdx,
      duration, exportType, content>>

LaneOthers == <<ComponentVars, translations>>

MaxRuns == 2

\* No runTranslate has been started.
NoTranslations ==
    [s \in Sides |-> [at |-> "idle", sent |-> <<>>, epoch |-> 0]]

InitLanes ==
    /\ pc = "lanes"
    /\ results \in [Sides -> [modelName : ModelNames, segments : TranscribedLists,
                              loading : {FALSE}, error : {NoError, ErrInvalid},
                              translating : {FALSE}]]
    /\ runs = [s \in Sides |-> [at |-> "idle", controller |-> "null", outcome |-> NoOutcome,
                                epoch |-> 0, shown |-> 0]]
    /\ translations = NoTranslations
    /\ ts = Unused /\ normOut = Unused /\ upstream = Unused /\ blob = Unused
    /\ repairOut = Unused /\ segments = Unused
    /\ currentTime = 0 /\ activeIdx = -1
    /\ duration = Unused /\ exportType = Unused /\ content = Unused

LaneUpdate_wholeRun(prev, side, lane) ==
    [s \in Sides |-> IF s = side THEN lane ELSE [prev[s] EXCEPT !.loading = FALSE]]

\* setResults(prev => ({ ...prev, [side]: lane })) (lines 325, 328, 330)
LaneUpdate(prev, side, lane) == [prev EXCEPT ![side] = lane]

\* startTranscription (lines 304-337) up to the two awaits; the button that
\* calls it is disabled while a lane is loading (lines 382, 452).  A run
\* record also counts the lane's transcriptions (epoch) and remembers the
\* transcription the lane's stored segments derive from (shown); the code
\* keeps neither.
startTranscription ==
    /\ pc = "lanes"
    /\ ~results["left"].loading /\ ~results["right"].loading
    /\ \A s \in Sides : runs[s].epoch < MaxRuns
    /\ results' = [s \in Sides |->
                      [results[s] EXCEPT !.loading = TRUE, !.segments = <<>>, !.error = NoError]]
    /\ runs' = [s \in Sides |-> [at |-> "awaiting", controller |-> "live", outcome |-> NoOutcome,
                                 epoch |-> runs[s].epoch + 1, shown |-> runs[s].epoch + 1]]
    /\ UNCHANGED <<pc, LaneOthers>>

\* The await of line 319 resumes with segments (lines 325, 333).
TranscriptionResolved(side) ==
    /\ runs[side].at = "awaiting"
    /\ \E segs \in TranscribedLists :
          /\ results' = LaneUpdate(results, side,
                            [results[side] EXCEPT !.segments = segs, !.loading = FALSE])
          /\ runs' = [runs EXCEPT ![side] =
                         [at |-> "done", controller |-> "null",
                          outcome |-> [kind |-> "success", segments |-> segs, message |-> ""],
                          epoch |-> runs[side].epoch, shown |-> runs[side].epoch]]
    /\ UNCHANGED <<pc, LaneOthers>>

\* The await throws an error other than AbortError (lines 330, 333).
TranscriptionFailed(side) ==
    /\ runs[side].at = "awaiting"
    /\ \E msg \in FailureMessages :
          /\ results' = LaneUpdate(results, side,
                            [results[side] EXCEPT !.error = msg, !.loading = FALSE])
          /\ runs' = [runs EXCEPT ![side] =
                         [at |-> "done", controller |-> "null",
                          outcome |-> [kind |-> "failure", segments |-> <<>>, message |-> msg],
                          epoch |-> runs[side].epoch, shown |-> runs[side].shown]]
    /\ UNCHANGED <<pc, LaneOthers>>

\* stopTranscription(side) (lines 339-345): abort and forget the controller.
stopTranscription(side) ==
    /\ runs[side].controller = "live"
    /\ runs' = [runs EXCEPT ![side].at = "aborting", ![side].controller = "null"]
    /\ UNCHANGED <<pc, results, LaneOthers>>

\* The await throws the AbortError of the aborted request (lines 327-328).
TranscriptionCanceled(side) ==
    /\ runs[side].at = "aborting"
    /\ results' = LaneUpdate(results, side,
                      [results[side] EXCEPT !.loading = FALSE, !.error = Canceled])
    /\ runs' = [runs EXCEPT ![side].at = "done",
                            ![side].outcome = [kind |-> "cancel", segments |-> <<>>,
                                               message |-> Canceled]]
    /\ UNCHANGED <<pc, LaneOthers>>

NextLanes ==
    \/ startTranscription
    \/ \E side \in Sides : TranscriptionResolved(side)
    \/ \E side \in Sides : TranscriptionFailed(side)
    \/ \E side \in Sides : stopTranscription(side)
    \/ \E side \in Sides : TranscriptionCanceled(side)

SpecLanes == InitLanes /\ [][NextLanes]_vars

\* ------------------------------------------------------------------------
\* Claims about the lanes (checked under SpecLanes)
\* ------------------------------------------------------------------------
\* A lane whose run has settled shows the outcome it settled with.
OutcomeStored(side) ==
    runs[side].at = "done" =>
        /\ ~results[side].loading
        /\ runs[side].outcome.kind = "success" =>
               results[side].segments = runs[side].outcome.segments
        /\ runs[side].outcome.kind \in {"failure", "cancel"} =>
               results[side].error = runs[side].outcome.message

\* The step in which a lane settles leaves the other lane alone.
SettlesAlone(side) ==
    (runs[side].at # "done" /\ runs'[side].at = "done") =>
        /\ results'[Other(side)] = results[Other(side)]
        /\ runs'[Other(side)] = runs[Other(side)]
        /\ results'[side].modelName = results[side].modelName

\* C19: in every interleaving of the two lanes' outcomes (success, failure
\* or user cancel, in either order) an outcome changes only its own lane's
\* segments, loading and error and leaves the other lane's state as it is,
\* and a lane's result stays stored whatever the other lane's outcome is.
C19_LanesIndependent ==
    /\ [](\A side \in Sides : OutcomeStored(side))
    /\ [][\A side \in Sides : SettlesAlone(side)]_vars

\* The left lane has failed and the right lane's segments are stored.
C19_Witness ==
    /\ pc = "lanes"
    /\ runs["left"].at = "done" /\ runs["left"].outcome.kind = "failure"
    /\ runs["right"].at = "done" /\ runs["right"].outcome.kind = "success"
    /\ results["left"].error = ErrInvalid /\ results["left"].segments = <<>>
    /\ results["right"].segments = <<LaneSegment(<<"a">>)>>
    /\ results["right"].error = NoError

\* ------------------------------------------------------------------------
\* A session of App: the two lanes with Transcribe, Stop and Translate
\* (src/unnamed/part_001 lines 304-363), from the state App is constructed
\* with.  handleTranslate starts runTranslate for both sides; each sends
\* the lane's segments to translateSegments (part_002 lines 307-364) and
\* stores what comes back.
\* ------------------------------------------------------------------------
\* useState of lines 89-95.
InitSession ==
    /\ pc = "lanes"
    /\ results =
         [s \in Sides |->
            [modelName |-> IF s = "left" THEN "gemini-2.5-flash" ELSE "gemini-3-flash-preview",
             segments |-> <<>>, loading |-> FALSE, error |-> NoError, translating |-> FALSE]]
    /\ runs = [s \in Sides |-> [at |-> "idle", controller |-> "null", outcome |-> NoOutcome,
                                epoch |-> 0, shown |-> 0]]
    /\ translations = NoTranslations
    /\ ts = Unused /\ normOut = Unused /\ upstream = Unused /\ blob = Unused
    /\ repairOut = Unused /\ segments = Unused
    /\ currentTime = 0 /\ activeIdx = -1
    /\ duration = Unused /\ exportType = Unused /\ content = Unused

\* A time as the service may send it back: without the hours (MM:SS.mmm,
\* the form the transcription prompt itself prefers).
ShortForm(t) == IF Len(t) = 12 THEN SubSeq(t, 4, 12) ELSE t

\* What translateSegments can resolve to for the segments it sent: each
\* segment with a translation added, the same with the times rewritten by
\* the service, or no segments at all (parsed.segments || []).  Nothing
\* between the response and the return value looks at the times (part_002
\* lines 358-359).
TranslationResponses(sent) ==
    { [i \in 1..Len(sent) |->
          [startTime |-> sent[i].startTime, endTime |-> sent[i].endTime,
           text |-> sent[i].text, translatedText |-> <<"t">>]],
      [i \in 1..Len(sent) |->
          [startTime |-> ShortForm(sent[i].startTime),
           endTime |-> ShortForm(sent[i].endTime),
           text |-> sent[i].text, translatedText |-> <<"t">>]],
      <<>> }

\* isTranslating and hasResults (part_001 lines 383-384)
isTranslating == results["left"].translating \/ results["right"].translating

hasResults == results["left"].segments # <<>> \/ results["right"].segments # <<>>

\* handleTranslate (part_001 lines 347-363) up to the awaits; its button is
\* rendered when hasResults and disabled while isTranslating (lines 460-476).
\* A lane without segments returns at line 353 before any request.
handleTranslate ==
    /\ pc = "lanes"
    /\ hasResults /\ ~isTranslating
    /\ results' = [s \in Sides |-> [results[s] EXCEPT !.translating = TRUE]]
    /\ translations' =
         [s \in Sides |->
            IF results[s].segments = <<>>
            THEN [at |-> "skipped", sent |-> <<>>, epoch |-> runs[s].shown]
            ELSE [at |-> "awaiting", sent |-> results[s].segments, epoch |-> runs[s].shown]]
    /\ UNCHANGED <<pc, runs, ComponentVars>>

\* The await of line 355 resumes with the translated segments (line 356).
TranslationResolved(side) ==
    /\ translations[side].at = "awaiting"
    /\ \E translated \in TranslationResponses(translations[side].sent) :
          results' = LaneUpdate(results, side,
                        [results[side] EXCEPT !.segments = translated, !.translating = FALSE])
    /\ runs' = [runs EXCEPT ![side].shown = translations[side].epoch]
    /\ translations' = [translations EXCEPT ![side].at = "settled"]
    /\ UNCHANGED <<pc, ComponentVars>>

\* The await throws (lines 357-359).
TranslationFailed(side) ==
    /\ translations[side].at = "awaiting"
    /\ results' = LaneUpdate(results, side, [results[side] EXCEPT !.translating = FALSE])
    /\ translations' = [translations EXCEPT ![side].at = "settled"]
    /\ UNCHANGED <<pc, runs, ComponentVars>>

NextSession ==
    \/ NextLanes
    \/ handleTranslate
    \/ \E side \in Sides : TranslationResolved(side)
    \/ \E side \in Sides : TranslationFailed(side)

SpecSession == InitSession /\ [][NextSession]_vars

\* ------------------------------------------------------------------------
\* Claims about a session (checked under SpecSession)
\* ------------------------------------------------------------------------
\* C23: after any sequence of transcribe and translate operations every
\* segment stored in a lane has a startTime and an endTime that
\* normalizeTimestamp returned, of the shape HH:MM:SS.mmm.
C23_StoredTimesNormalized ==
    \A side \in Sides : \A i \in 1..Len(results[side].segments) :
        /\ IsCanonicalShape(results[side].segments[i].startTime)
        /\ IsCanonicalShape(results[side].segments[i].endTime)

\* Every runTranslate of the last handleTranslate has returned.
TranslateReturned == \A side \in Sides : translations[side].at \in {"settled", "skipped"}

\* C24: once handleTranslate has been invoked and every translation
\* request it started has settled, translating is false on both lanes (the
\* Translate button is enabled again), also when a lane had no segments at
\* the click.
C24_TranslatingCleared ==
    TranslateReturned => ~isTranslating

\* C25: the segments a lane stores derive from the transcription of that
\* lane that was started last; no response to an earlier request
\* overwrites them.
C25_SegmentsOfLatestRun ==
    \A side \in Sides : runs[side].shown = runs[side].epoch

\* C26: a lane stopped while its request was in flight ends with loading
\* false, the error 'Canceled by user' and no segments, and stays so
\* whatever response arrives afterwards.
C26_CancelSticks ==
    \A side \in Sides :
        (runs[side].at = "done" /\ runs[side].outcome.kind = "cancel") =>
            /\ ~results[side].loading
            /\ results[side].error = Canceled
            /\ results[side].segments = <<>>

====
